---- MODULE Spec2Model ----
(***************************************************************************)
(* ctxwire: propagation of context values through HTTP headers.            *)
(*                                                                         *)
(* The model follows the package source (ctxwire.go and transport.go):     *)
(* the Error type and newError, the JSON codec, ValuePropagator, the       *)
(* process-wide propagatorRegister with its mutex, the top-level           *)
(* Configure / Inject / Extract, and the transport decorators; from the    *)
(* package's tests it takes the failing codecs, the log codec and the      *)
(* handler of the test server.                                             *)
(*                                                                         *)
(* Representation.                                                         *)
(*   - a Go string is a sequence of one-character strings; []byte is a     *)
(*     sequence of numbers 0..255;                                         *)
(*   - a context is a function from context keys to values, Nil where the  *)
(*     key has no value (ctx.Value(key) == nil); NilCtx is the nil         *)
(*     context.Context returned on failure;                                *)
(*   - http.Header is a function from canonical header names to the list   *)
(*     of values of the entry (map[string][]string);                       *)
(*   - an error is the chain of its layers, outermost first, each layer    *)
(*     tagged with whether it is a *ctxwire.Error; the nil error is <<>>;  *)
(*   - an http.RoundTripper is the stack of the decorators around the      *)
(*     primitive, and a RoundTrip is the frame rt that walks the stack;    *)
(*   - hist records the calls that returned before on the carrier in use,  *)
(*     and outer[p] the calls of goroutine p that wait for a codec they    *)
(*     called to return.                                                   *)
(***************************************************************************)
EXTENDS Integers, Sequences, FiniteSets, TLC

(***************************************************************************)
(* Strings                                                                 *)
(***************************************************************************)
Lowers == <<"a", "b", "c", "d", "e", "f", "g", "h", "i", "j", "k", "l", "m",
            "n", "o", "p", "q", "r", "s", "t", "u", "v", "w", "x", "y", "z">>

Uppers == <<"A", "B", "C", "D", "E", "F", "G", "H", "I", "J", "K", "L", "M",
            "N", "O", "P", "Q", "R", "S", "T", "U", "V", "W", "X", "Y", "Z">>

Digits == <<"0", "1", "2", "3", "4", "5", "6", "7", "8", "9">>

InSeq(c, s) == \E i \in 1..Len(s) : s[i] = c

IndexOf(c, s) == CHOOSE i \in 1..Len(s) : s[i] = c

ToUpper(c) == IF InSeq(c, Lowers) THEN Uppers[IndexOf(c, Lowers)] ELSE c

ToLower(c) == IF InSeq(c, Uppers) THEN Lowers[IndexOf(c, Uppers)] ELSE c

\* textproto's token characters, restricted to the characters of the model.
ValidHeaderFieldByte(c) ==
    InSeq(c, Lowers) \/ InSeq(c, Uppers) \/ InSeq(c, Digits) \/ c \in {"-", "_", "!"}

\* net/textproto.CanonicalMIMEHeaderKey, which http.Header.Set and Get apply to
\* the name: the first letter and every letter after a hyphen in upper case,
\* the others in lower case; a name holding a byte that is no token character
\* is left as it is.
CanonicalMIMEHeaderKey(s) ==
    IF \E i \in 1..Len(s) : ~ValidHeaderFieldByte(s[i])
    THEN s
    ELSE [i \in 1..Len(s) |->
            IF i = 1 \/ s[i - 1] = "-" THEN ToUpper(s[i]) ELSE ToLower(s[i])]

HeaderPrefix == <<"x", "-", "c", "t", "x", "w", "i", "r", "e", "-">>

headerKey(name) == HeaderPrefix \o name

(***************************************************************************)
(* http.Header                                                             *)
(***************************************************************************)
\* A faulty variant of HeaderSet: the value is added to those of the entry, as
\* h.Add does.
HeaderSet_Add(h, k, v) ==
    LET ck == CanonicalMIMEHeaderKey(k)
    IN  [x \in (DOMAIN h) \cup {ck} |->
            IF x = ck THEN (IF ck \in DOMAIN h THEN h[ck] ELSE <<>>) \o <<v>>
            ELSE h[x]]

\* A faulty variant of HeaderSet: the map is made anew with the one entry.
HeaderSet_Reset(h, k, v) ==
    LET ck == CanonicalMIMEHeaderKey(k)
    IN  [x \in {ck} |-> <<v>>]

\* h.Set(k, v): the entry of the canonical form of k is replaced by the one
\* value v.
HeaderSet(h, k, v) ==
    LET ck == CanonicalMIMEHeaderKey(k)
    IN  [x \in (DOMAIN h) \cup {ck} |-> IF x = ck THEN <<v>> ELSE h[x]]

HeaderGet(h, k) ==
    LET ck == CanonicalMIMEHeaderKey(k)
    IN  IF ck \in DOMAIN h /\ Len(h[ck]) > 0 THEN h[ck][1] ELSE <<>>

HeaderHas(h, k) == CanonicalMIMEHeaderKey(k) \in DOMAIN h

(***************************************************************************)
(* encoding/base64, StdEncoding                                            *)
(***************************************************************************)
B64Alphabet == Uppers \o Lowers \o Digits \o <<"+", "/">>

B64Char(n) == B64Alphabet[n + 1]

B64Index(c) == IndexOf(c, B64Alphabet) - 1

RECURSIVE EncodeToString(_)
EncodeToString(data) ==
    IF Len(data) = 0 THEN <<>>
    ELSE IF Len(data) = 1 THEN
        <<B64Char(data[1] \div 4), B64Char((data[1] % 4) * 16), "=", "=">>
    ELSE IF Len(data) = 2 THEN
        <<B64Char(data[1] \div 4),
          B64Char((data[1] % 4) * 16 + data[2] \div 16),
          B64Char((data[2] % 16) * 4), "=">>
    ELSE
        <<B64Char(data[1] \div 4),
          B64Char((data[1] % 4) * 16 + data[2] \div 16),
          B64Char((data[2] % 16) * 4 + data[3] \div 64),
          B64Char(data[3] % 64)>>
        \o EncodeToString(SubSeq(data, 4, Len(data)))

\* One quantum of four characters; `last` tells whether padding may occur.
DecodeQuantum(q, last) ==
    LET ok(c) == InSeq(c, B64Alphabet)
        v(i)  == B64Index(q[i])
    IN  IF ok(q[1]) /\ ok(q[2]) /\ ok(q[3]) /\ ok(q[4]) THEN
            [ok |-> TRUE,
             data |-> <<v(1) * 4 + v(2) \div 16,
                        (v(2) % 16) * 16 + v(3) \div 4,
                        (v(3) % 4) * 64 + v(4)>>]
        ELSE IF last /\ ok(q[1]) /\ ok(q[2]) /\ ok(q[3]) /\ q[4] = "=" THEN
            [ok |-> TRUE,
             data |-> <<v(1) * 4 + v(2) \div 16, (v(2) % 16) * 16 + v(3) \div 4>>]
        ELSE IF last /\ ok(q[1]) /\ ok(q[2]) /\ q[3] = "=" /\ q[4] = "=" THEN
            [ok |-> TRUE, data |-> <<v(1) * 4 + v(2) \div 16>>]
        ELSE [ok |-> FALSE, data |-> <<>>]

\* base64.StdEncoding.DecodeString on a string without line breaks: the data,
\* or CorruptInputError.
RECURSIVE DecodeString(_)
DecodeString(s) ==
    IF Len(s) = 0 THEN [ok |-> TRUE, data |-> <<>>]
    ELSE IF Len(s) < 4 THEN [ok |-> FALSE, data |-> <<>>]
    ELSE
        LET q    == DecodeQuantum(SubSeq(s, 1, 4), Len(s) = 4)
            rest == DecodeString(SubSeq(s, 5, Len(s)))
        IN  IF q.ok /\ rest.ok
            THEN [ok |-> TRUE, data |-> q.data \o rest.data]
            ELSE [ok |-> FALSE, data |-> <<>>]

(***************************************************************************)
(* Values, contexts and errors                                             *)
(***************************************************************************)
\* A Go value: its dynamic type and its content as text. The model's values
\* are scalars: strings of letters, non-negative whole numbers (int or
\* float64), booleans, and a channel, which encoding/json cannot encode.
Val(t, b) == [t |-> t, b |-> b]

Nil == Val("nil", <<>>)

\* The context keys of the callers.
Keys == {"kA", "kC", "kE", "kD", "kW", "kX", "kL"}

\* The nil context.Context: no value can be read from it.
NilCtx == [k \in Keys |-> Val("nilctx", <<>>)]

\* context.WithValue(ctx, key, v): a new context; ctx itself is not changed.
WithValue(ctx, key, v) == [ctx EXCEPT ![key] = v]

\* ctx.Value(key)
Value(ctx, key) == ctx[key]

NoErr == <<>>

\* errors.New(msg)
ErrorsNew(msg) == <<[pkg |-> FALSE, msg |-> msg]>>

\* &Error{message: message, err: err}
PkgError(message, err) == <<[pkg |-> TRUE, msg |-> message]>> \o err

\* errors.As(err, &ctxwireErr): some error of the chain is a *Error.
AsPkgError(err) == \E i \in 1..Len(err) : err[i].pkg

\* (*Error).Unwrap, and nil for an error that wraps nothing.
Unwrap(err) == Tail(err)

\* err.Error(): (*Error).Error is fmt.Sprintf("%s: %s", e.message, e.err.Error()).
RECURSIVE ErrorString(_)
ErrorString(err) ==
    IF Len(err) = 1 THEN err[1].msg
    ELSE err[1].msg \o ": " \o ErrorString(Tail(err))

\* A faulty variant of newError: it wraps always, as the earlier version of the
\* package did.
newError_AlwaysWrap(message, err) == PkgError(message, err)

newError(message, err) ==
    IF AsPkgError(err) THEN err ELSE PkgError(message, err)

(***************************************************************************)
(* encoding/json on the model's values                                     *)
(***************************************************************************)
IsDigits(b) == Len(b) > 0 /\ \A i \in 1..Len(b) : b[i] \in 48..57

IsLetters(b) == \A i \in 1..Len(b) : b[i] \in 97..122

TextTrue == <<116, 114, 117, 101>>

TextFalse == <<102, 97, 108, 115, 101>>

TextNull == <<110, 117, 108, 108>>

\* json.Marshal(v)
Marshal(v) ==
    CASE v.t = "string"  -> [data |-> <<34>> \o v.b \o <<34>>, err |-> NoErr]
      [] v.t = "int"     -> [data |-> v.b, err |-> NoErr]
      [] v.t = "float64" -> [data |-> v.b, err |-> NoErr]
      [] v.t = "bool"    -> [data |-> v.b, err |-> NoErr]
      [] v.t = "nil"     -> [data |-> TextNull, err |-> NoErr]
      [] OTHER           -> [data |-> <<>>,
                             err |-> ErrorsNew("json: unsupported type: chan int")]

\* var v any; json.Unmarshal(data, &v): a JSON number becomes a float64.
Unmarshal(data) ==
    IF data = TextNull THEN [v |-> Nil, err |-> NoErr]
    ELSE IF data = TextTrue \/ data = TextFalse
    THEN [v |-> Val("bool", data), err |-> NoErr]
    ELSE IF IsDigits(data) /\ (Len(data) = 1 \/ data[1] # 48)
    THEN [v |-> Val("float64", data), err |-> NoErr]
    ELSE IF Len(data) >= 2 /\ data[1] = 34 /\ data[Len(data)] = 34
            /\ IsLetters(SubSeq(data, 2, Len(data) - 1))
    THEN [v |-> Val("string", SubSeq(data, 2, Len(data) - 1)), err |-> NoErr]
    ELSE IF Len(data) = 0
    THEN [v |-> Nil, err |-> ErrorsNew("unexpected end of JSON input")]
    ELSE [v |-> Nil, err |-> ErrorsNew("invalid character looking for beginning of value")]

(***************************************************************************)
(* Codecs                                                                  *)
(***************************************************************************)
encodeJSON(ctx, key) ==
    LET v == Value(ctx, key)
    IN  IF v = Nil THEN [data |-> <<>>, err |-> NoErr] ELSE Marshal(v)

\* A faulty variant of decodeJSON: the value is stored in a new context that
\* holds nothing else.
decodeJSON_Fresh(ctx, key, data) ==
    LET r == Unmarshal(data)
    IN  IF r.err # NoErr THEN [ctx |-> NilCtx, err |-> r.err]
        ELSE [ctx |-> WithValue([k \in Keys |-> Nil], key, r.v), err |-> NoErr]

\* A faulty variant of decodeJSON: the decoded value is not stored.
decodeJSON_Discard(ctx, key, data) ==
    LET r == Unmarshal(data)
    IN  IF r.err # NoErr THEN [ctx |-> NilCtx, err |-> r.err]
        ELSE [ctx |-> ctx, err |-> NoErr]

decodeJSON(ctx, key, data) ==
    LET r == Unmarshal(data)
    IN  IF r.err # NoErr THEN [ctx |-> NilCtx, err |-> r.err]
        ELSE [ctx |-> WithValue(ctx, key, r.v), err |-> NoErr]

\* The failing codecs of TestError.
errEncoder(ctx, key) ==
    IF Value(ctx, key) = Nil THEN [data |-> <<>>, err |-> NoErr]
    ELSE [data |-> <<>>, err |-> ErrorsNew("failed!")]

errDecoder(ctx, key, data) == [ctx |-> NilCtx, err |-> ErrorsNew("failed!")]

\* Codecs that fail with an error that is already a package Error, as the
\* Encoder and Decoder interfaces ask of their implementations.
pkgErrEncoder(ctx, key) ==
    IF Value(ctx, key) = Nil THEN [data |-> <<>>, err |-> NoErr]
    ELSE [data |-> <<>>, err |-> PkgError("codec", ErrorsNew("failed!"))]

pkgErrDecoder(ctx, key, data) ==
    [ctx |-> NilCtx, err |-> PkgError("codec", ErrorsNew("failed!"))]

(***************************************************************************)
(* The log codec of the back-propagation test                              *)
(***************************************************************************)
\* The byte of a character of a field name or of a value: a lower-case
\* letter, a digit or the underscore.
Ascii(c) ==
    IF InSeq(c, Lowers) THEN 96 + IndexOf(c, Lowers)
    ELSE IF InSeq(c, Digits) THEN 47 + IndexOf(c, Digits)
    ELSE 95

\* []byte(s)
Bytes(s) == [i \in 1..Len(s) |-> Ascii(s[i])]

\* The fields of logEntry, in the order of the struct.
LogFields == <<"service", "index", "user_token", "latency_ms">>

\* The name of a field in the JSON document (its json tag).
JSONName(f) ==
    CASE f = "service"    -> Bytes(<<"s", "e", "r", "v", "i", "c", "e">>)
      [] f = "index"      -> Bytes(<<"i", "n", "d", "e", "x">>)
      [] f = "user_token" -> Bytes(<<"u", "s", "e", "r", "_", "t", "o", "k", "e", "n">>)
      [] f = "latency_ms" -> Bytes(<<"l", "a", "t", "e", "n", "c", "y", "_", "m", "s">>)

\* var e logEntry
ZeroEntry ==
    [f \in {LogFields[i] : i \in 1..Len(LogFields)} |->
        IF f = "latency_ms" THEN Val("int", <<48>>) ELSE Val("string", <<>>)]

\* A logAttr is the field it sets and the value, or "json" and the document
\* of logWithJSONEntry.
LogAttr(f, v) == [f |-> f, v |-> v]

logWithService(service) == LogAttr("service", Val("string", service))

logWithIndex(index) == LogAttr("index", Val("string", index))

logWithUserToken(token) == LogAttr("user_token", Val("string", token))

logWithLatency(latency) == LogAttr("latency_ms", Val("int", latency))

logWithJSONEntry(data) == LogAttr("json", Val("raw", data))

\* logState{attrs: attrs}
LogState(attrs) == [t |-> "logState", attrs |-> attrs]

\* The first index from i on of a byte of data that is in the set S, and 0 when
\* there is none.
FirstAt(data, i, S) ==
    IF \E k \in i..Len(data) : data[k] \in S
    THEN CHOOSE k \in i..Len(data) :
            data[k] \in S /\ \A m \in i..(k - 1) : data[m] \notin S
    ELSE 0

\* The members of a JSON object from the member that starts at index i on:
\* "name":"text" or "name":digits, separated by commas, up to the closing
\* brace that ends the document.
RECURSIVE ParseMembers(_, _)
ParseMembers(data, i) ==
    LET bad  == [ok |-> FALSE, members |-> <<>>]
        j    == FirstAt(data, i + 1, {34})
        isS  == data[j + 2] = 34
        k    == IF isS THEN FirstAt(data, j + 3, {34})
                ELSE FirstAt(data, j + 2, (0..255) \ (48..57))
        nxt  == IF isS THEN k + 1 ELSE k
        val  == IF isS THEN Val("string", SubSeq(data, j + 3, k - 1))
                ELSE Val("int", SubSeq(data, j + 2, k - 1))
        m    == [name |-> SubSeq(data, i + 1, j - 1), val |-> val]
        rest == ParseMembers(data, nxt + 1)
    IN  IF i > Len(data) \/ data[i] # 34 \/ j = 0 THEN bad
        ELSE IF j + 2 > Len(data) \/ data[j + 1] # 58 THEN bad
        ELSE IF k = 0 \/ nxt > Len(data) THEN bad
        ELSE IF ~isS /\ ~(IsDigits(val.b) /\ (Len(val.b) = 1 \/ val.b[1] # 48)) THEN bad
        ELSE IF data[nxt] = 125
        THEN (IF nxt = Len(data) THEN [ok |-> TRUE, members |-> <<m>>] ELSE bad)
        ELSE IF data[nxt] # 44 THEN bad
        ELSE IF rest.ok THEN [ok |-> TRUE, members |-> <<m>> \o rest.members]
        ELSE bad

\* The members of the JSON object data, when data is one.
ParseObject(data) ==
    IF Len(data) < 2 \/ data[1] # 123 THEN [ok |-> FALSE, members |-> <<>>]
    ELSE IF data = <<123, 125>> THEN [ok |-> TRUE, members |-> <<>>]
    ELSE ParseMembers(data, 2)

\* json.Unmarshal(data, &eJSON) for a json.RawMessage fails when data is no
\* JSON document.
ValidJSON(data) == ParseObject(data).ok \/ Unmarshal(data).err = NoErr

\* The entry e after the members ms of a document were stored in it: a member
\* sets the field of its name when the value has the field's type.
RECURSIVE SetMembers(_, _)
SetMembers(e, ms) ==
    IF Len(ms) = 0 THEN e
    ELSE LET fs == {f \in DOMAIN e : JSONName(f) = ms[1].name /\ e[f].t = ms[1].val.t}
         IN  SetMembers([f \in DOMAIN e |-> IF f \in fs THEN ms[1].val ELSE e[f]],
                        Tail(ms))

\* json.Unmarshal(data, l) for l *logEntry; a document that is no object
\* leaves the entry as it is.
UnmarshalEntry(data, e) ==
    LET r == ParseObject(data)
    IN  IF r.ok THEN SetMembers(e, r.members) ELSE e

\* attr(&e)
ApplyAttr(e, attr) ==
    IF attr.f = "json" THEN UnmarshalEntry(attr.v.b, e)
    ELSE [e EXCEPT ![attr.f] = attr.v]

\* var e logEntry; for _, attr := range attrs { attr(&e) }
RECURSIVE ApplyAttrs(_, _)
ApplyAttrs(e, attrs) ==
    IF Len(attrs) = 0 THEN e
    ELSE ApplyAttrs(ApplyAttr(e, attrs[1]), Tail(attrs))

\* The members of json.Marshal(e) for the fields fs of e, in order; a field
\* with the zero value is left out (omitempty).
RECURSIVE MarshalFields(_, _)
MarshalFields(e, fs) ==
    IF Len(fs) = 0 THEN <<>>
    ELSE LET v    == e[fs[1]]
             rest == MarshalFields(e, Tail(fs))
             m    == <<34>> \o JSONName(fs[1]) \o <<34, 58>>
                     \o (IF v.t = "string" THEN <<34>> \o v.b \o <<34>> ELSE v.b)
         IN  IF v = ZeroEntry[fs[1]] THEN rest
             ELSE IF Len(rest) = 0 THEN m
             ELSE m \o <<44>> \o rest

\* json.Marshal(e) for e logEntry
MarshalEntry(e) == <<123>> \o MarshalFields(e, LogFields) \o <<125>>

logEncoder(ctx, key) ==
    LET v == Value(ctx, key)
    IN  IF v.t # "logState" THEN [data |-> <<>>, err |-> NoErr]
        ELSE [data |-> MarshalEntry(ApplyAttrs(ZeroEntry, v.attrs)), err |-> NoErr]

\* A faulty variant of logDecoder: the received entry replaces the attributes
\* the context held.
logDecoder_Replace(ctx, key, data) ==
    LET v == Value(ctx, key)
    IN  IF v.t # "logState" THEN [ctx |-> ctx, err |-> NoErr]
        ELSE IF ~ValidJSON(data)
        THEN [ctx |-> NilCtx,
              err |-> ErrorsNew("invalid character looking for beginning of value")]
        ELSE [ctx |-> WithValue(ctx, key, LogState(<<logWithJSONEntry(data)>>)),
              err |-> NoErr]

logDecoder(ctx, key, data) ==
    LET v == Value(ctx, key)
    IN  IF v.t # "logState" THEN [ctx |-> ctx, err |-> NoErr]
        ELSE IF ~ValidJSON(data)
        THEN [ctx |-> NilCtx,
              err |-> ErrorsNew("invalid character looking for beginning of value")]
        ELSE [ctx |-> WithValue(ctx, key,
                                LogState(Append(v.attrs, logWithJSONEntry(data)))),
              err |-> NoErr]

\* EncoderFunc.Encode: the call of the function the propagator holds.
Encode(enc, ctx, key) ==
    CASE enc = "encodeJSON"    -> encodeJSON(ctx, key)
      [] enc = "errEncoder"    -> errEncoder(ctx, key)
      [] enc = "pkgErrEncoder" -> pkgErrEncoder(ctx, key)
      [] enc = "logEncoder"    -> logEncoder(ctx, key)

\* DecoderFunc.Decode
Decode(dec, ctx, key, data) ==
    CASE dec = "decodeJSON"    -> decodeJSON(ctx, key, data)
      [] dec = "errDecoder"    -> errDecoder(ctx, key, data)
      [] dec = "pkgErrDecoder" -> pkgErrDecoder(ctx, key, data)
      [] dec = "logDecoder"    -> logDecoder(ctx, key, data)

(***************************************************************************)
(* Propagators                                                             *)
(***************************************************************************)
\* NewValuePropagator(name, contextKey, encoder, decoder)
NewValuePropagator(name, contextKey, encoder, decoder) ==
    [kind |-> "value", name |-> name, contextKey |-> contextKey,
     encoder |-> encoder, decoder |-> decoder]

\* NewJSONPropagator(name, contextKey)
NewJSONPropagator(name, contextKey) ==
    NewValuePropagator(name, contextKey, "encodeJSON", "decodeJSON")

\* A Propagator that is no ValuePropagator: an implementation of the
\* interface supplied by the caller. This one leaves the carrier alone and
\* fails with a plain error when the context holds a value under its key.
NewPlainPropagator(contextKey) ==
    [kind |-> "plain", name |-> <<>>, contextKey |-> contextKey,
     encoder |-> "", decoder |-> ""]

PA == NewJSONPropagator(<<"a">>, "kA")

PC == NewJSONPropagator(<<"c">>, "kC")

\* TestError's two propagators.
PEncode == NewValuePropagator(<<"e">>, "kE", "errEncoder", "decodeJSON")

PDecode == NewValuePropagator(<<"d">>, "kD", "encodeJSON", "errDecoder")

PPkg == NewValuePropagator(<<"w">>, "kW", "pkgErrEncoder", "pkgErrDecoder")

PPlain == NewPlainPropagator("kX")

Catalogue == {PA, PC, PEncode, PDecode, PPkg, PPlain}

\* A faulty variant of ValuePropagator.Inject: it writes the field whatever the
\* length of the payload.
ValuePropagator_Inject_NoLenCheck(q, ctx, h) ==
    LET r == Encode(q.encoder, ctx, q.contextKey)
    IN  IF r.err # NoErr
        THEN [h |-> h, err |-> newError("encode context value", r.err)]
        ELSE [h |-> HeaderSet(h, headerKey(q.name), EncodeToString(r.data)),
              err |-> NoErr]

\* A faulty variant of ValuePropagator.Inject: the value is appended to the field,
\* as h.Add does.
ValuePropagator_Inject_Add(q, ctx, h) ==
    LET r == Encode(q.encoder, ctx, q.contextKey)
    IN  IF r.err # NoErr
        THEN [h |-> h, err |-> newError("encode context value", r.err)]
        ELSE IF Len(r.data) = 0
        THEN [h |-> h, err |-> NoErr]
        ELSE [h |-> HeaderSet_Add(h, headerKey(q.name), EncodeToString(r.data)),
              err |-> NoErr]

\* A faulty variant of ValuePropagator.Inject: without a payload the field is
\* deleted from the carrier, as h.Del does.
ValuePropagator_Inject_DelAbsent(q, ctx, h) ==
    LET r == Encode(q.encoder, ctx, q.contextKey)
    IN  IF r.err # NoErr
        THEN [h |-> h, err |-> newError("encode context value", r.err)]
        ELSE IF Len(r.data) = 0
        THEN [h |-> [x \in (DOMAIN h) \ {CanonicalMIMEHeaderKey(headerKey(q.name))}
                        |-> h[x]],
              err |-> NoErr]
        ELSE [h |-> HeaderSet(h, headerKey(q.name), EncodeToString(r.data)),
              err |-> NoErr]

\* (*ValuePropagator).Inject
ValuePropagator_Inject(q, ctx, h) ==
    LET r == Encode(q.encoder, ctx, q.contextKey)
    IN  IF r.err # NoErr
        THEN [h |-> h, err |-> newError("encode context value", r.err)]
        ELSE IF Len(r.data) = 0
        THEN [h |-> h, err |-> NoErr]
        ELSE [h |-> HeaderSet(h, headerKey(q.name), EncodeToString(r.data)),
              err |-> NoErr]

\* A faulty variant of ValuePropagator.Extract: an empty field is decoded like any
\* other.
ValuePropagator_Extract_NoEmptyCheck(q, ctx, h) ==
    LET vStr == HeaderGet(h, headerKey(q.name))
        v    == DecodeString(vStr)
        r    == Decode(q.decoder, ctx, q.contextKey, v.data)
    IN  IF ~v.ok
        THEN [ctx |-> NilCtx, decoded |-> FALSE,
              err |-> newError("base64 decode context value",
                               ErrorsNew("illegal base64 data"))]
        ELSE IF r.err # NoErr
        THEN [ctx |-> NilCtx, decoded |-> TRUE,
              err |-> newError("decode context value", r.err)]
        ELSE [ctx |-> r.ctx, err |-> NoErr, decoded |-> TRUE]

\* A faulty variant of ValuePropagator.Extract: the decoder's error is returned as
\* it is, as the earlier version of the package did.
ValuePropagator_Extract_NoWrap(q, ctx, h) ==
    LET vStr == HeaderGet(h, headerKey(q.name))
        v    == DecodeString(vStr)
        r    == Decode(q.decoder, ctx, q.contextKey, v.data)
    IN  IF vStr = <<>>
        THEN [ctx |-> ctx, err |-> NoErr, decoded |-> FALSE]
        ELSE IF ~v.ok
        THEN [ctx |-> NilCtx, decoded |-> FALSE,
              err |-> ErrorsNew("illegal base64 data")]
        ELSE IF r.err # NoErr
        THEN [ctx |-> NilCtx, decoded |-> TRUE, err |-> r.err]
        ELSE [ctx |-> r.ctx, err |-> NoErr, decoded |-> TRUE]

\* A faulty variant of ValuePropagator.Extract: the error of the base64 decoding is
\* dropped and the decoder gets what was decoded.
ValuePropagator_Extract_IgnoreB64(q, ctx, h) ==
    LET vStr == HeaderGet(h, headerKey(q.name))
        v    == DecodeString(vStr)
        r    == Decode(q.decoder, ctx, q.contextKey, v.data)
    IN  IF vStr = <<>>
        THEN [ctx |-> ctx, err |-> NoErr, decoded |-> FALSE]
        ELSE IF r.err # NoErr
        THEN [ctx |-> NilCtx, decoded |-> TRUE,
              err |-> newError("decode context value", r.err)]
        ELSE [ctx |-> r.ctx, err |-> NoErr, decoded |-> TRUE]

\* (*ValuePropagator).Extract; "decoded" tells whether the decoder was called.
ValuePropagator_Extract(q, ctx, h) ==
    LET vStr == HeaderGet(h, headerKey(q.name))
        v    == DecodeString(vStr)
        r    == Decode(q.decoder, ctx, q.contextKey, v.data)
    IN  IF vStr = <<>>
        THEN [ctx |-> ctx, err |-> NoErr, decoded |-> FALSE]
        ELSE IF ~v.ok
        THEN [ctx |-> NilCtx, decoded |-> FALSE,
              err |-> newError("base64 decode context value",
                               ErrorsNew("illegal base64 data"))]
        ELSE IF r.err # NoErr
        THEN [ctx |-> NilCtx, decoded |-> TRUE,
              err |-> newError("decode context value", r.err)]
        ELSE [ctx |-> r.ctx, err |-> NoErr, decoded |-> TRUE]

PlainPropagator_Inject(q, ctx, h) ==
    IF Value(ctx, q.contextKey) = Nil THEN [h |-> h, err |-> NoErr]
    ELSE [h |-> h, err |-> ErrorsNew("plain failed")]

PlainPropagator_Extract(q, ctx, h) ==
    IF Value(ctx, q.contextKey) = Nil
    THEN [ctx |-> ctx, err |-> NoErr, decoded |-> FALSE]
    ELSE [ctx |-> NilCtx, err |-> ErrorsNew("plain failed"), decoded |-> FALSE]

\* p.Inject(ctx, h) through the Propagator interface
Propagator_Inject(q, ctx, h) ==
    IF q.kind = "value" THEN ValuePropagator_Inject(q, ctx, h)
    ELSE PlainPropagator_Inject(q, ctx, h)

\* p.Extract(ctx, h) through the Propagator interface
Propagator_Extract(q, ctx, h) ==
    IF q.kind = "value" THEN ValuePropagator_Extract(q, ctx, h)
    ELSE PlainPropagator_Extract(q, ctx, h)

(***************************************************************************)
(* The callers' inputs                                                     *)
(***************************************************************************)
VStr == Val("string", <<97>>)

VInt == Val("int", <<55>>)

VFloat == Val("float64", <<55>>)

VTrue == Val("bool", TextTrue)

VChan == Val("chan", <<>>)

\* context.Background()
Background == [k \in Keys |-> Nil]

\* A value under every key; the one under "kC" is a channel.
CtxAll ==
    [k \in Keys |->
        CASE k = "kC" -> VChan
          [] k = "kD" -> VTrue
          [] OTHER    -> VStr]

\* Values under the keys of the propagators whose encoder is encodeJSON.
CtxJSON ==
    [k \in Keys |->
        CASE k = "kA" -> VFloat
          [] k = "kC" -> VInt
          [] k = "kD" -> VStr
          [] OTHER    -> Nil]

Contexts == {Background, CtxAll, CtxJSON}

\* http.Header{}
HEmpty == <<>>

Accept == <<"A", "c", "c", "e", "p", "t">>

FieldOf(name) == CanonicalMIMEHeaderKey(headerKey(name))

\* A carrier received from a peer: an entry of another name, an empty field
\* for "a", a field for "c" that is no base64, a number for "w", and for "e"
\* the base64 of an opening brace, which is no JSON document.
HPeer ==
    [x \in {Accept, FieldOf(<<"a">>), FieldOf(<<"c">>), FieldOf(<<"w">>),
            FieldOf(<<"e">>)} |->
        CASE x = Accept           -> << <<"j">> >>
          [] x = FieldOf(<<"a">>) -> << <<>> >>
          [] x = FieldOf(<<"c">>) -> << <<"!", "!", "!", "!">> >>
          [] x = FieldOf(<<"w">>) -> << EncodeToString(<<55>>) >>
          [] x = FieldOf(<<"e">>) -> << EncodeToString(<<123>>) >>]

Carriers == {HEmpty, HPeer}

MaxProps == 3

MaxArgs == 2

\* The arguments of one Configure call.
ArgLists == UNION {[1..n -> Catalogue] : n \in 1..MaxArgs}

Procs == {"p1", "p2"}

(***************************************************************************)
(* State                                                                   *)
(***************************************************************************)
VARIABLES
    propagators,  \* register.propagators
    mu,           \* register.mu: "free", or the process that holds it
    pc,           \* where each process is in its call
    op,           \* the top-level call each process runs, or ran last
    args,         \* Configure's arguments
    ctx0,         \* the context the caller passed
    ctx,          \* the ctx variable of propagatorRegister.Extract
    h0,           \* the carrier as it was when the call started
    h,            \* the carrier
    rng,          \* the slice the range loop iterates
    idx,          \* the index of the propagator the loop runs next
    perr,         \* the error the register's method returns
    calls,        \* the propagators run by the call, in order, with what each got
    rerr,         \* the error the top-level call returned
    rctx,         \* the context the top-level Extract returned
    sent,         \* history: the Inject that filled the carrier from empty
    rt,           \* the frame of the client's RoundTrip through the decorators
    hist,         \* history: the calls that returned before, on the same carrier
    outer         \* per process: the calls that wait for a codec to return

vars == <<propagators, mu, pc, op, args, ctx0, ctx, h0, h, rng, idx, perr,
          calls, rerr, rctx, sent, rt, hist, outer>>

\* A (*http.Response, error) pair's response: nil, or one with its Header.
NoResp == [nil |-> TRUE, h |-> <<>>]

Response(hh) == [nil |-> FALSE, h |-> hh]

\* No RoundTrip is running: the frame of a call that has returned to the
\* caller, here of none. t is the stack of decorators, outermost first, depth
\* the layer that runs (0: the caller), req the *http.Request, ctx0 the
\* context the request was made with, resp and err the values on their way
\* back, trace the calls and returns of Inject, of the wrapped primitive and
\* of Extract in the order they happened.
NoRoundTrip ==
    [pc |-> "leave", t |-> <<>>, depth |-> 0,
     req |-> [ctx |-> [k \in Keys |-> Nil], h |-> <<>>],
     ctx0 |-> [k \in Keys |-> Nil], resp |-> NoResp, err |-> NoErr, trace |-> <<>>]

NotSent == [ok |-> FALSE, ctx |-> Background, rng |-> <<>>]

Init ==
    /\ propagators = <<>>
    /\ mu = "free"
    /\ pc = [p \in Procs |-> "idle"]
    /\ op = [p \in Procs |-> "none"]
    /\ args = [p \in Procs |-> <<>>]
    /\ ctx0 = [p \in Procs |-> Background]
    /\ ctx = [p \in Procs |-> Background]
    /\ h0 = [p \in Procs |-> HEmpty]
    /\ h = [p \in Procs |-> HEmpty]
    /\ rng = [p \in Procs |-> <<>>]
    /\ idx = [p \in Procs |-> 1]
    /\ perr = [p \in Procs |-> NoErr]
    /\ calls = [p \in Procs |-> <<>>]
    /\ rerr = [p \in Procs |-> NoErr]
    /\ rctx = [p \in Procs |-> Background]
    /\ sent = [p \in Procs |-> NotSent]
    /\ rt = NoRoundTrip
    /\ hist = <<>>
    /\ outer = [p \in Procs |-> <<>>]

(***************************************************************************)
(* Calls                                                                   *)
(***************************************************************************)
\* A caller enters Configure(a...). What the caller's last call left behind
\* is forgotten.
CallConfigure(p, a) ==
    /\ pc[p] = "idle"
    /\ Len(propagators) + Len(a) <= MaxProps
    /\ pc' = [pc EXCEPT ![p] = "lock"]
    /\ op' = [op EXCEPT ![p] = "Configure"]
    /\ args' = [args EXCEPT ![p] = a]
    /\ ctx0' = [ctx0 EXCEPT ![p] = Background]
    /\ ctx' = [ctx EXCEPT ![p] = Background]
    /\ h0' = [h0 EXCEPT ![p] = HEmpty]
    /\ h' = [h EXCEPT ![p] = HEmpty]
    /\ rng' = [rng EXCEPT ![p] = <<>>]
    /\ idx' = [idx EXCEPT ![p] = 1]
    /\ calls' = [calls EXCEPT ![p] = <<>>]
    /\ perr' = [perr EXCEPT ![p] = NoErr]
    /\ rerr' = [rerr EXCEPT ![p] = NoErr]
    /\ rctx' = [rctx EXCEPT ![p] = Background]
    /\ sent' = [sent EXCEPT ![p] = NotSent]
    /\ UNCHANGED <<propagators, mu, rt, hist, outer>>

\* A caller enters Inject(c, hh) or Extract(c, hh); hh is a new carrier or
\* the one the caller's last call used. The caller is the application or a
\* transport decorator, whose frame rt the action leaves open, as it does the
\* history hist of the calls on the carrier.
CallCarrier(p, o, c, hh) ==
    /\ pc[p] = "idle"
    /\ pc' = [pc EXCEPT ![p] = "lock"]
    /\ op' = [op EXCEPT ![p] = o]
    /\ args' = [args EXCEPT ![p] = <<>>]
    /\ ctx0' = [ctx0 EXCEPT ![p] = c]
    /\ ctx' = [ctx EXCEPT ![p] = c]
    /\ h0' = [h0 EXCEPT ![p] = hh]
    /\ h' = [h EXCEPT ![p] = hh]
    /\ rng' = [rng EXCEPT ![p] = <<>>]
    /\ idx' = [idx EXCEPT ![p] = 1]
    /\ calls' = [calls EXCEPT ![p] = <<>>]
    /\ perr' = [perr EXCEPT ![p] = NoErr]
    /\ rerr' = [rerr EXCEPT ![p] = NoErr]
    /\ rctx' = [rctx EXCEPT ![p] = c]
    /\ sent' = [sent EXCEPT ![p] = IF hh = h[p] THEN @ ELSE NotSent]
    /\ UNCHANGED <<propagators, mu, outer>>

\* Inject(c, hh) called by the application.
CallInject(p, c, hh) == CallCarrier(p, "Inject", c, hh) /\ UNCHANGED <<rt, hist, outer>>

\* Extract(c, hh) called by the application.
CallExtract(p, c, hh) == CallCarrier(p, "Extract", c, hh) /\ UNCHANGED <<rt, hist, outer>>

\* A faulty variant of Lock: the mutex is reentrant, the goroutine that holds
\* it locks it again without waiting.
Lock_Reentrant(p) ==
    /\ pc[p] = "lock"
    /\ mu \in {"free", p}
    /\ mu' = p
    /\ rng' = [rng EXCEPT ![p] = IF op[p] = "Configure" THEN <<>> ELSE propagators]
    /\ pc' = [pc EXCEPT ![p] =
                IF op[p] = "Configure" THEN "add"
                ELSE IF Len(propagators) = 0 THEN "unlock" ELSE "loop"]
    /\ UNCHANGED <<propagators, op, args, ctx0, ctx, h0, h, idx, perr, calls, rerr,
                   rctx, sent, rt, hist, outer>>

\* A faulty variant of Lock: it does not wait for the mutex.
Lock_NoWait(p) ==
    /\ pc[p] = "lock"
    /\ mu' = p
    /\ rng' = [rng EXCEPT ![p] = IF op[p] = "Configure" THEN <<>> ELSE propagators]
    /\ pc' = [pc EXCEPT ![p] =
                IF op[p] = "Configure" THEN "add"
                ELSE IF Len(propagators) = 0 THEN "unlock" ELSE "loop"]
    /\ UNCHANGED <<propagators, op, args, ctx0, ctx, h0, h, idx, perr, calls, rerr,
                   rctx, sent, rt, hist, outer>>

\* r.mu.Lock(), and the evaluation of the range expression.
Lock(p) ==
    /\ pc[p] = "lock"
    /\ mu = "free"
    /\ mu' = p
    /\ rng' = [rng EXCEPT ![p] = IF op[p] = "Configure" THEN <<>> ELSE propagators]
    /\ pc' = [pc EXCEPT ![p] =
                IF op[p] = "Configure" THEN "add"
                ELSE IF Len(propagators) = 0 THEN "unlock" ELSE "loop"]
    /\ UNCHANGED <<propagators, op, args, ctx0, ctx, h0, h, idx, perr, calls, rerr,
                   rctx, sent, rt, hist, outer>>

\* A faulty variant of Add: Configure replaces the list.
Add_Replace(p) ==
    /\ pc[p] = "add"
    /\ propagators' = args[p]
    /\ pc' = [pc EXCEPT ![p] = "unlock"]
    /\ UNCHANGED <<mu, op, args, ctx0, ctx, h0, h, rng, idx, perr, calls, rerr,
                   rctx, sent, rt, hist, outer>>

\* r.propagators = append(r.propagators, propagators...)
Add(p) ==
    /\ pc[p] = "add"
    /\ propagators' = propagators \o args[p]
    /\ pc' = [pc EXCEPT ![p] = "unlock"]
    /\ UNCHANGED <<mu, op, args, ctx0, ctx, h0, h, rng, idx, perr, calls, rerr,
                   rctx, sent, rt, hist, outer>>

\* What a call records of one propagator it ran.
Ran(i, q, ctxIn, ctxOut, codec, err) ==
    [i |-> i, q |-> q, ctxIn |-> ctxIn, ctxOut |-> ctxOut, codec |-> codec,
     err |-> err]

\* A faulty variant of InjectStep: the loop goes on after a failure.
InjectStep_NoStop(p) ==
    /\ pc[p] = "loop"
    /\ op[p] = "Inject"
    /\ LET q == rng[p][idx[p]]
           r == Propagator_Inject(q, ctx[p], h[p])
       IN  /\ h' = [h EXCEPT ![p] = r.h]
           /\ calls' = [calls EXCEPT ![p] =
                 Append(@, Ran(idx[p], q, ctx[p], ctx[p], q.kind = "value", r.err))]
           /\ perr' = [perr EXCEPT ![p] = IF r.err # NoErr THEN r.err ELSE @]
           /\ idx' = [idx EXCEPT ![p] = @ + 1]
           /\ pc' = [pc EXCEPT ![p] =
                 IF idx[p] = Len(rng[p]) THEN "unlock" ELSE "loop"]
    /\ UNCHANGED <<propagators, mu, op, args, ctx0, ctx, h0, rng, rerr, rctx, sent,
                   rt, hist, outer>>

\* One iteration of the loop of propagatorRegister.Inject.
InjectStep(p) ==
    /\ pc[p] = "loop"
    /\ op[p] = "Inject"
    /\ LET q == rng[p][idx[p]]
           r == Propagator_Inject(q, ctx[p], h[p])
       IN  /\ h' = [h EXCEPT ![p] = r.h]
           /\ calls' = [calls EXCEPT ![p] =
                 Append(@, Ran(idx[p], q, ctx[p], ctx[p], q.kind = "value", r.err))]
           /\ perr' = [perr EXCEPT ![p] = r.err]
           /\ idx' = [idx EXCEPT ![p] = @ + 1]
           /\ pc' = [pc EXCEPT ![p] =
                 IF r.err # NoErr \/ idx[p] = Len(rng[p]) THEN "unlock" ELSE "loop"]
    /\ UNCHANGED <<propagators, mu, op, args, ctx0, ctx, h0, rng, rerr, rctx, sent,
                   rt, hist, outer>>

\* A faulty variant of ExtractStep: every propagator gets the caller's context.
ExtractStep_Unthreaded(p) ==
    /\ pc[p] = "loop"
    /\ op[p] = "Extract"
    /\ LET q == rng[p][idx[p]]
           r == Propagator_Extract(q, ctx0[p], h[p])
       IN  /\ ctx' = [ctx EXCEPT ![p] = r.ctx]
           /\ calls' = [calls EXCEPT ![p] =
                 Append(@, Ran(idx[p], q, ctx0[p], r.ctx, r.decoded, r.err))]
           /\ perr' = [perr EXCEPT ![p] = r.err]
           /\ idx' = [idx EXCEPT ![p] = @ + 1]
           /\ pc' = [pc EXCEPT ![p] =
                 IF r.err # NoErr \/ idx[p] = Len(rng[p]) THEN "unlock" ELSE "loop"]
    /\ UNCHANGED <<propagators, mu, op, args, ctx0, h0, h, rng, rerr, rctx, sent,
                   rt, hist, outer>>

\* A faulty variant of ExtractStep: the loop goes on after a failure.
ExtractStep_NoStop(p) ==
    /\ pc[p] = "loop"
    /\ op[p] = "Extract"
    /\ LET q == rng[p][idx[p]]
           r == Propagator_Extract(q, ctx[p], h[p])
       IN  /\ ctx' = [ctx EXCEPT ![p] = r.ctx]
           /\ calls' = [calls EXCEPT ![p] =
                 Append(@, Ran(idx[p], q, ctx[p], r.ctx, r.decoded, r.err))]
           /\ perr' = [perr EXCEPT ![p] = IF r.err # NoErr THEN r.err ELSE @]
           /\ idx' = [idx EXCEPT ![p] = @ + 1]
           /\ pc' = [pc EXCEPT ![p] =
                 IF idx[p] = Len(rng[p]) THEN "unlock" ELSE "loop"]
    /\ UNCHANGED <<propagators, mu, op, args, ctx0, h0, h, rng, rerr, rctx, sent,
                   rt, hist, outer>>

\* One iteration of the loop of propagatorRegister.Extract.
ExtractStep(p) ==
    /\ pc[p] = "loop"
    /\ op[p] = "Extract"
    /\ LET q == rng[p][idx[p]]
           r == Propagator_Extract(q, ctx[p], h[p])
       IN  /\ ctx' = [ctx EXCEPT ![p] = r.ctx]
           /\ calls' = [calls EXCEPT ![p] =
                 Append(@, Ran(idx[p], q, ctx[p], r.ctx, r.decoded, r.err))]
           /\ perr' = [perr EXCEPT ![p] = r.err]
           /\ idx' = [idx EXCEPT ![p] = @ + 1]
           /\ pc' = [pc EXCEPT ![p] =
                 IF r.err # NoErr \/ idx[p] = Len(rng[p]) THEN "unlock" ELSE "loop"]
    /\ UNCHANGED <<propagators, mu, op, args, ctx0, h0, h, rng, rerr, rctx, sent,
                   rt, hist, outer>>

\* The deferred r.mu.Unlock() and the return of Configure.
ConfigureReturn(p) ==
    /\ pc[p] = "unlock"
    /\ op[p] = "Configure"
    /\ mu' = "free"
    /\ pc' = [pc EXCEPT ![p] = "idle"]
    /\ UNCHANGED <<propagators, op, args, ctx0, ctx, h0, h, rng, idx, perr, calls,
                   rerr, rctx, sent, rt, hist, outer>>

\* A faulty variant of InjectReturn: the mutex is unlocked at the end of the
\* loop only, and the return out of the loop keeps it.
InjectReturn_KeepOnError(p) ==
    /\ pc[p] = "unlock"
    /\ op[p] = "Inject"
    /\ mu' = IF perr[p] # NoErr THEN mu ELSE "free"
    /\ rerr' = [rerr EXCEPT ![p] =
          IF perr[p] # NoErr THEN newError("inject context values", perr[p])
          ELSE NoErr]
    /\ sent' = [sent EXCEPT ![p] =
          IF h0[p] = HEmpty /\ perr[p] = NoErr
          THEN [ok |-> TRUE, ctx |-> ctx0[p], rng |-> rng[p]]
          ELSE NotSent]
    /\ pc' = [pc EXCEPT ![p] = "idle"]
    /\ UNCHANGED <<propagators, op, args, ctx0, ctx, h0, h, rng, idx, perr, calls,
                   rctx, rt, hist, outer>>

\* The deferred r.mu.Unlock() and the return of the top-level Inject.
InjectReturn(p) ==
    /\ pc[p] = "unlock"
    /\ op[p] = "Inject"
    /\ mu' = "free"
    /\ rerr' = [rerr EXCEPT ![p] =
          IF perr[p] # NoErr THEN newError("inject context values", perr[p])
          ELSE NoErr]
    /\ sent' = [sent EXCEPT ![p] =
          IF h0[p] = HEmpty /\ perr[p] = NoErr
          THEN [ok |-> TRUE, ctx |-> ctx0[p], rng |-> rng[p]]
          ELSE NotSent]
    /\ pc' = [pc EXCEPT ![p] = "idle"]
    /\ UNCHANGED <<propagators, op, args, ctx0, ctx, h0, h, rng, idx, perr, calls,
                   rctx, rt, hist, outer>>

\* The deferred r.mu.Unlock() and the return of the top-level Extract.
ExtractReturn(p) ==
    /\ pc[p] = "unlock"
    /\ op[p] = "Extract"
    /\ mu' = "free"
    /\ rerr' = [rerr EXCEPT ![p] =
          IF perr[p] # NoErr THEN newError("extract context values", perr[p])
          ELSE NoErr]
    /\ rctx' = [rctx EXCEPT ![p] = IF perr[p] # NoErr THEN NilCtx ELSE ctx[p]]
    /\ pc' = [pc EXCEPT ![p] = "idle"]
    /\ UNCHANGED <<propagators, op, args, ctx0, ctx, h0, h, rng, idx, perr, calls,
                   sent, rt, hist, outer>>

\* One caller at a time.
Caller == "p1"

Next ==
    \/ \E a \in ArgLists : CallConfigure(Caller, a)
    \/ \E c \in Contexts, hh \in Carriers \cup {h[Caller]} : CallInject(Caller, c, hh)
    \/ \E c \in Contexts, hh \in Carriers \cup {h[Caller]} : CallExtract(Caller, c, hh)
    \/ Lock(Caller)
    \/ Add(Caller)
    \/ InjectStep(Caller)
    \/ ExtractStep(Caller)
    \/ ConfigureReturn(Caller)
    \/ InjectReturn(Caller)
    \/ ExtractReturn(Caller)

Spec == Init /\ [][Next]_vars

\* A top-level call o of process p has returned.
Done(p, o) == pc[p] = "idle" /\ op[p] = o

\* The innermost error of a chain.
Cause(err) == err[Len(err)]

(***************************************************************************)
(* Properties                                                              *)
(***************************************************************************)
\* Propagators i and j of the list q write the same header entry.
SameField(q, i, j) == FieldOf(q[i].name) = FieldOf(q[j].name)

\* C1. Fail-stop on Inject. In a top-level Inject that has returned, when the
\* encoder of the propagator at position f failed: no propagator after f was
\* run (its encoder was never called), the call returned an error whose cause
\* is that encoder's error, the field of every earlier propagator that
\* produced a payload is in the carrier with the base64 of the payload (no
\* rollback), and the carrier holds no field that it did not hold before the
\* call other than those of the propagators before f.
C1_FailStopInject ==
    \A p \in Procs :
        Done(p, "Inject") =>
            \A f \in 1..Len(calls[p]) :
                LET q == calls[p][f].q
                    e == Encode(q.encoder, ctx0[p], q.contextKey)
                IN  (q.kind = "value" /\ e.err # NoErr) =>
                        /\ Len(calls[p]) = f
                        /\ \A j \in 1..f : calls[p][j].i = j /\ calls[p][j].q = rng[p][j]
                        /\ rerr[p] # NoErr
                        /\ Cause(rerr[p]) = Cause(e.err)
                        /\ \A j \in 1..(f - 1) :
                              LET qj == rng[p][j]
                                  ej == Encode(qj.encoder, ctx0[p], qj.contextKey)
                              IN  (/\ qj.kind = "value"
                                   /\ Len(ej.data) > 0
                                   /\ \A k \in (j + 1)..(f - 1) : ~SameField(rng[p], j, k))
                                  => /\ HeaderHas(h[p], headerKey(qj.name))
                                     /\ h[p][FieldOf(qj.name)] = <<EncodeToString(ej.data)>>
                        /\ \A x \in DOMAIN h[p] :
                              \/ x \in DOMAIN h0[p]
                              \/ \E j \in 1..(f - 1) : x = FieldOf(rng[p][j].name)

\* C1's case: the register is [A, B, C], the context holds a value under the
\* three keys, the carrier was empty, B's encoder failed.
C1_Witness ==
    /\ Done("p1", "Inject")
    /\ rng["p1"] = <<PA, PEncode, PC>>
    /\ ctx0["p1"] = CtxAll
    /\ h0["p1"] = HEmpty
    /\ DOMAIN h["p1"] = {FieldOf(<<"a">>)}
    /\ ErrorString(rerr["p1"]) = "encode context value: failed!"

\* C2. Fail-void on Extract. In a top-level Extract that has returned, when
\* the decoder of the propagator at position f was called and failed: no
\* propagator after f was run, the call returned the nil context and an error
\* whose cause is the decoder's error.
C2_FailVoidExtract ==
    \A p \in Procs :
        Done(p, "Extract") =>
            \A f \in 1..Len(calls[p]) :
                LET c == calls[p][f]
                    v == DecodeString(HeaderGet(h0[p], headerKey(c.q.name)))
                    d == Decode(c.q.decoder, c.ctxIn, c.q.contextKey, v.data)
                IN  (c.q.kind = "value" /\ c.codec /\ d.err # NoErr) =>
                        /\ Len(calls[p]) = f
                        /\ \A j \in 1..f : calls[p][j].i = j /\ calls[p][j].q = rng[p][j]
                        /\ rctx[p] = NilCtx
                        /\ rerr[p] # NoErr
                        /\ Cause(rerr[p]) = Cause(d.err)

\* C2's case: the register is [A, B, C], the carrier holds the three fields as
\* Inject wrote them, A's decoder extended the context and B's decoder failed.
C2_Witness ==
    /\ Done("p1", "Extract")
    /\ rng["p1"] = <<PA, PDecode, PC>>
    /\ sent["p1"].ok /\ sent["p1"].ctx = CtxJSON
    /\ ctx0["p1"] = Background
    /\ Len(calls["p1"]) = 2
    /\ calls["p1"][1].ctxOut["kA"] = VFloat
    /\ rctx["p1"] = NilCtx
    /\ ErrorString(rerr["p1"]) = "decode context value: failed!"

\* C3. Registration-order threading on Extract. At every moment of an Extract
\* call the propagators run so far are the first ones of the list, in the
\* order of the list; the first got the caller's context and each other one
\* got exactly the context the one before it returned; so a propagator reads,
\* under the key of any earlier one, the value that one left there, unless a
\* propagator between them has the same key.
C3_ExtractThreading ==
    \A p \in Procs :
        op[p] = "Extract" =>
            /\ Len(calls[p]) <= Len(rng[p])
            /\ \A j \in 1..Len(calls[p]) :
                  /\ calls[p][j].i = j
                  /\ calls[p][j].q = rng[p][j]
                  /\ calls[p][j].ctxIn = IF j = 1 THEN ctx0[p] ELSE calls[p][j - 1].ctxOut
            /\ \A i, j \in 1..Len(calls[p]) :
                  (/\ i < j
                   /\ \A k \in (i + 1)..(j - 1) :
                         rng[p][k].contextKey # rng[p][i].contextKey)
                  => Value(calls[p][j].ctxIn, rng[p][i].contextKey)
                       = Value(calls[p][i].ctxOut, rng[p][i].contextKey)

\* C3's case: A then B, both fields in the carrier; B's decoder got a context
\* that holds the value A decoded, which the caller's context did not hold.
C3_Witness ==
    /\ Done("p1", "Extract")
    /\ rng["p1"] = <<PA, PC>>
    /\ Len(calls["p1"]) = 2
    /\ calls["p1"][1].codec /\ calls["p1"][2].codec
    /\ Value(ctx0["p1"], "kA") = Nil
    /\ Value(calls["p1"][2].ctxIn, "kA") = VFloat
    /\ rerr["p1"] = NoErr

\* C4. Configure is cumulative and append-only. A step changes the list only
\* by appending, at its end, the arguments of the Configure call that takes
\* the step, in the order of the arguments; and an Inject or Extract that ran
\* to the end of the list without failure ran every entry of the list as it
\* was when the call took the lock, once per occurrence, in order.
C4_ConfigureAppends ==
    /\ [][propagators' # propagators =>
            \E p \in Procs :
                /\ op[p] = "Configure"
                /\ pc[p] = "add"
                /\ Len(args[p]) > 0
                /\ propagators' = propagators \o args[p]]_vars
    /\ [](\A p \in Procs :
            ((Done(p, "Inject") \/ Done(p, "Extract")) /\ rerr[p] = NoErr) =>
                /\ rng[p] = propagators
                /\ Len(calls[p]) = Len(rng[p])
                /\ \A j \in 1..Len(calls[p]) : calls[p][j].q = rng[p][j])

\* C4's case: a list that took two Configure calls to build, with the same
\* propagator at two places, run by an Inject that applied it twice.
C4_Witness ==
    /\ Done("p1", "Inject")
    /\ propagators = <<PA, PC, PA>>
    /\ Len(calls["p1"]) = 3
    /\ calls["p1"][1].q = PA /\ calls["p1"][3].q = PA
    /\ rerr["p1"] = NoErr

\* Every propagator of the list q uses the default JSON codec, and two of them
\* with the same header field have the same context key.
AllJSON(q) ==
    /\ \A i \in 1..Len(q) :
          q[i].kind = "value" /\ q[i].encoder = "encodeJSON" /\ q[i].decoder = "decodeJSON"
    /\ \A i, j \in 1..Len(q) : SameField(q, i, j) => q[i].contextKey = q[j].contextKey

\* An Extract has returned that read a carrier an Inject of the same register
\* had filled from empty, all propagators using the default JSON codec.
RoundTripDone(p) ==
    /\ Done(p, "Extract")
    /\ sent[p].ok
    /\ sent[p].rng = rng[p]
    /\ AllJSON(rng[p])

C6_AbsentNotInjected ==
    [][\A p \in Procs :
          (/\ pc[p] = "loop"
           /\ op[p] = "Inject"
           /\ rng[p][idx[p]].kind = "value"
           /\ Encode(rng[p][idx[p]].encoder, ctx[p], rng[p][idx[p]].contextKey)
                = [data |-> <<>>, err |-> NoErr]
           /\ idx'[p] = idx[p] + 1)
          => /\ h'[p] = h[p]
             /\ DOMAIN h'[p] = DOMAIN h[p]
             /\ perr'[p] = NoErr]_vars

\* C6's case: an Inject ran a propagator whose key has no value in the
\* context, on a carrier without its field, and returned.
C6_Witness ==
    /\ Done("p1", "Inject")
    /\ rng["p1"] = <<PA, PDecode>>
    /\ ctx0["p1"] = Background
    /\ Len(calls["p1"]) = 2
    /\ ~HeaderHas(h0["p1"], headerKey(<<"a">>))
    /\ ~HeaderHas(h["p1"], headerKey(<<"a">>))
    /\ rerr["p1"] = NoErr

\* C7. Absence is silent on Extract. A step of Extract for a value propagator
\* whose field is absent from the carrier, or is the empty string, leaves the
\* context as it is, sets no error and does not call the decoder; and an
\* Extract over value propagators none of whose fields is in the carrier
\* returns the caller's context and no error.
C7_AbsentNotExtracted ==
    /\ [][\A p \in Procs :
            (/\ pc[p] = "loop"
             /\ op[p] = "Extract"
             /\ rng[p][idx[p]].kind = "value"
             /\ HeaderGet(h[p], headerKey(rng[p][idx[p]].name)) = <<>>
             /\ idx'[p] = idx[p] + 1)
            => /\ ctx'[p] = ctx[p]
               /\ perr'[p] = NoErr
               /\ ~calls'[p][Len(calls'[p])].codec]_vars
    /\ [](\A p \in Procs :
            (/\ Done(p, "Extract")
             /\ \A j \in 1..Len(rng[p]) :
                   /\ rng[p][j].kind = "value"
                   /\ HeaderGet(h0[p], headerKey(rng[p][j].name)) = <<>>)
            => rctx[p] = ctx0[p] /\ rerr[p] = NoErr)

\* C7's case: an Extract over two propagators, one whose field is the empty
\* string and one whose field is absent, returned the caller's context.
C7_Witness ==
    /\ Done("p1", "Extract")
    /\ rng["p1"] = <<PA, PDecode>>
    /\ h0["p1"] = HPeer
    /\ ctx0["p1"] = CtxJSON
    /\ Len(calls["p1"]) = 2
    /\ rctx["p1"] = CtxJSON
    /\ rerr["p1"] = NoErr

\* The call-level label of a top-level call.
CallLabel(o) ==
    IF o = "Inject" THEN "inject context values" ELSE "extract context values"

\* A top-level Inject or Extract of p has returned after a propagator failed.
Failed(p) == (Done(p, "Inject") \/ Done(p, "Extract")) /\ perr[p] # NoErr

\* C8 as stated. Call-level error label: when a propagator failed, the error
\* the top-level call returned is the propagator's error wrapped in an Error
\* with the call-level label.
C8_CallLabelAlways ==
    \A p \in Procs :
        Failed(p) =>
            /\ rerr[p][1] = [pkg |-> TRUE, msg |-> CallLabel(op[p])]
            /\ Unwrap(rerr[p]) = perr[p]

\* C8, amended. When the failed propagator's error holds no package Error in
\* its chain, the top-level call returned it wrapped in an Error with the
\* call-level label; when it holds one, as every error of a ValuePropagator
\* does, the top-level call returned it as it is, without the call-level
\* label. In both cases the original cause is at the end of the chain.
C8_CallLabelUnlessPkgError ==
    \A p \in Procs :
        Failed(p) =>
            LET q == calls[p][Len(calls[p])].q
            IN  /\ q.kind = "value" =>
                      /\ rerr[p] = perr[p]
                      /\ rerr[p][1].pkg
                      /\ rerr[p][1].msg # CallLabel(op[p])
                /\ q.kind # "value" =>
                      /\ rerr[p][1] = [pkg |-> TRUE, msg |-> CallLabel(op[p])]
                      /\ Unwrap(rerr[p]) = perr[p]
                      /\ ~AsPkgError(perr[p])
                /\ Cause(rerr[p]) = Cause(perr[p])

\* C8's case: a propagator failed in a top-level Extract with a plain error,
\* and the call returned it under the call-level label.
C8_Witness ==
    /\ Failed("p1")
    /\ op["p1"] = "Extract"
    /\ calls["p1"][Len(calls["p1"])].q = PPlain
    /\ ErrorString(rerr["p1"]) = "extract context values: plain failed"

\* The error of the encoder of the propagator that call entry c ran in p's
\* Inject, and of its decoder in p's Extract.
EncoderErr(p, c) == Encode(c.q.encoder, ctx0[p], c.q.contextKey).err

DecoderErr(p, c) ==
    Decode(c.q.decoder, c.ctxIn, c.q.contextKey,
           DecodeString(HeaderGet(h0[p], headerKey(c.q.name))).data).err

\* C9 as stated. Stage-labelled error text: the message of the error a
\* top-level Inject returned after an encoder failed with e is
\* "encode context value: " and e's message; the message of the error a
\* top-level Extract returned after a decoder failed with e is
\* "decode context value: " and e's message.
C9_StageTextAlways ==
    \A p \in Procs :
        Failed(p) =>
            LET c == calls[p][Len(calls[p])]
            IN  /\ (op[p] = "Inject" /\ c.q.kind = "value") =>
                      ErrorString(rerr[p])
                        = "encode context value: " \o ErrorString(EncoderErr(p, c))
                /\ (op[p] = "Extract" /\ c.q.kind = "value" /\ c.codec) =>
                      ErrorString(rerr[p])
                        = "decode context value: " \o ErrorString(DecoderErr(p, c))

\* C9, amended. The same, for a cause e whose chain holds no package Error;
\* when e is or wraps a package Error, the message of the returned error is
\* e's message, with no stage label added.
C9_StageTextUnlessPkgError ==
    \A p \in Procs :
        Failed(p) =>
            LET c == calls[p][Len(calls[p])]
                e == IF op[p] = "Inject" THEN EncoderErr(p, c) ELSE DecoderErr(p, c)
                stage == IF op[p] = "Inject" THEN "encode context value: "
                         ELSE "decode context value: "
            IN  (c.q.kind = "value" /\ (op[p] = "Extract" => c.codec)) =>
                    ErrorString(rerr[p])
                      = IF AsPkgError(e) THEN ErrorString(e)
                        ELSE stage \o ErrorString(e)

\* C9's case, as in TestError: a decoder failed with errors.New("failed!") on
\* a payload that an Inject had written.
C9_Witness ==
    /\ Failed("p1")
    /\ op["p1"] = "Extract"
    /\ sent["p1"].ok
    /\ calls["p1"][Len(calls["p1"])].q = PDecode
    /\ calls["p1"][Len(calls["p1"])].codec
    /\ ErrorString(rerr["p1"]) = "decode context value: failed!"

\* C10. Wire-format failure. In a top-level Extract that has returned, when
\* the field of the value propagator at position f was present, not empty and
\* no base64: its decoder was not called, no propagator after f was run, the
\* call returned the nil context and an Error labelled
\* "base64 decode context value", which is not the label of a decoder's
\* failure.
C10_Base64Failure ==
    \A p \in Procs :
        Done(p, "Extract") =>
            \A f \in 1..Len(calls[p]) :
                LET c    == calls[p][f]
                    vStr == HeaderGet(h0[p], headerKey(c.q.name))
                IN  (c.q.kind = "value" /\ vStr # <<>> /\ ~DecodeString(vStr).ok) =>
                        /\ ~c.codec
                        /\ Len(calls[p]) = f
                        /\ rctx[p] = NilCtx
                        /\ rerr[p][1] = [pkg |-> TRUE, msg |-> "base64 decode context value"]
                        /\ rerr[p][1].msg # "decode context value"
                        /\ ~AsPkgError(Unwrap(rerr[p]))

\* C10's case: the first of two propagators has a field that is no base64.
C10_Witness ==
    /\ Done("p1", "Extract")
    /\ rng["p1"] = <<PC, PA>>
    /\ h0["p1"] = HPeer
    /\ ctx0["p1"] = CtxJSON
    /\ Len(calls["p1"]) = 1
    /\ rctx["p1"] = NilCtx
    /\ ErrorString(rerr["p1"]) = "base64 decode context value: illegal base64 data"


\* Two header names are the same name for http.Header: they differ by the
\* case of letters only.
EqualFold(a, b) ==
    Len(a) = Len(b) /\ \A i \in 1..Len(a) : ToLower(a[i]) = ToLower(b[i])

\* The entry x of carrier a is in carrier b with the same values.
SameEntry(a, b, x) == x \in DOMAIN a /\ x \in DOMAIN b /\ a[x] = b[x]

\* C18. Header frame. A step of Inject sets at most the entry named
\* "x-ctxwire-" + name for the name of the propagator it runs (the name as
\* http.Header spells it), and leaves every other entry with its value; when
\* a top-level Inject has returned, with or without an error, every entry
\* whose name is not "x-ctxwire-" + name for a propagator that was run is as
\* it was before the call; and Extract never modifies the carrier.
C18_HeaderFrame ==
    /\ [][\A p \in Procs :
            (pc[p] = "loop" /\ op[p] = "Inject" /\ idx'[p] = idx[p] + 1) =>
                LET q == rng[p][idx[p]]
                IN  \A x \in (DOMAIN h[p]) \cup (DOMAIN h'[p]) :
                        \/ SameEntry(h[p], h'[p], x)
                        \/ /\ q.kind = "value"
                           /\ x = FieldOf(q.name)
                           /\ EqualFold(x, headerKey(q.name))]_vars
    /\ [](\A p \in Procs :
            Done(p, "Inject") =>
                \A x \in (DOMAIN h0[p]) \cup (DOMAIN h[p]) :
                    \/ SameEntry(h0[p], h[p], x)
                    \/ \E j \in 1..Len(calls[p]) :
                          /\ calls[p][j].q = rng[p][j]
                          /\ EqualFold(x, headerKey(rng[p][j].name)))
    /\ [](\A p \in Procs : op[p] = "Extract" => h[p] = h0[p])

\* C18's case: an Inject on a carrier received from a peer wrote the field of
\* its first propagator and failed at the second; the peer's other entries
\* are as they were.
C18_Witness ==
    /\ Done("p1", "Inject")
    /\ rng["p1"] = <<PA, PEncode>>
    /\ ctx0["p1"] = CtxAll
    /\ h0["p1"] = HPeer
    /\ rerr["p1"] # NoErr
    /\ h["p1"][FieldOf(<<"a">>)] = <<EncodeToString(Marshal(VStr).data)>>
    /\ h["p1"][FieldOf(<<"a">>)] # h0["p1"][FieldOf(<<"a">>)]
    /\ \A x \in (DOMAIN HPeer) \ {FieldOf(<<"a">>)} : SameEntry(HPeer, h["p1"], x)

\* The positions of the value propagators of the list q that have the context
\* key k and whose field is in the carrier hh with a value that is not empty.
Present(q, hh, k) ==
    {j \in 1..Len(q) :
        /\ q[j].kind = "value"
        /\ q[j].contextKey = k
        /\ HeaderGet(hh, headerKey(q[j].name)) # <<>>}

\* The last position of a set of positions that is not empty.
Last(js) == CHOOSE j \in js : \A i \in js : i <= j

\* C19. Extract yields an extension of the input context. When a top-level
\* Extract has returned without error and every propagator whose field was in
\* the carrier uses the default JSON decoder: under every key that is not the
\* key of such a propagator the returned context holds the value the caller's
\* context holds, and under the key of such a propagator it holds the value
\* decoded from the field (of the last one with that key). No step of a call,
\* whether the call ends in success or in failure, changes the context the
\* caller passed.
C19_ExtractExtends ==
    /\ [](\A p \in Procs :
            (/\ Done(p, "Extract")
             /\ rerr[p] = NoErr
             /\ \A k \in Keys : \A j \in Present(rng[p], h0[p], k) :
                   rng[p][j].decoder = "decodeJSON")
            => \A k \in Keys :
                  LET js == Present(rng[p], h0[p], k)
                      f  == HeaderGet(h0[p], headerKey(rng[p][Last(js)].name))
                  IN  IF js = {}
                      THEN Value(rctx[p], k) = Value(ctx0[p], k)
                      ELSE Value(rctx[p], k) = Unmarshal(DecodeString(f).data).v)
    /\ [][\A p \in Procs : pc[p] # "idle" => ctx0'[p] = ctx0[p]]_vars

\* C19's case: an Extract of two propagators from a carrier that holds the
\* field of the first, into a context with a value under every key: the
\* returned context differs from the caller's under the first one's key only.
C19_Witness ==
    /\ Done("p1", "Extract")
    /\ rng["p1"] = <<PC, PEncode>>
    /\ sent["p1"].ok /\ sent["p1"].ctx = CtxJSON
    /\ ctx0["p1"] = CtxAll
    /\ rerr["p1"] = NoErr
    /\ Value(ctx0["p1"], "kC") = VChan
    /\ Value(rctx["p1"], "kC") = VFloat
    /\ \A k \in Keys \ {"kC"} : Value(rctx["p1"], k) = Value(CtxAll, k)

(***************************************************************************)
(* Two propagators of one name                                             *)
(***************************************************************************)
\* A propagator with the name of PA and another context key.
PA2 == NewJSONPropagator(<<"a">>, "kD")

CollideCatalogue == {PA, PA2, PC}

CollideArgLists == UNION {[1..n -> CollideCatalogue] : n \in 1..MaxArgs}

\* The calls of one caller whose Configure calls register propagators of
\* CollideCatalogue.
NextCollide ==
    \/ \E a \in CollideArgLists : CallConfigure(Caller, a)
    \/ \E c \in Contexts, hh \in Carriers \cup {h[Caller]} : CallInject(Caller, c, hh)
    \/ \E c \in Contexts, hh \in Carriers \cup {h[Caller]} : CallExtract(Caller, c, hh)
    \/ Lock(Caller)
    \/ Add(Caller)
    \/ InjectStep(Caller)
    \/ ExtractStep(Caller)
    \/ ConfigureReturn(Caller)
    \/ InjectReturn(Caller)
    \/ ExtractReturn(Caller)

SpecCollide == Init /\ [][NextCollide]_vars

\* Propagators i < j of the list q have the same name, and no propagator
\* after j writes their header entry.
Collide(q, i, j) ==
    /\ i < j
    /\ q[i].name = q[j].name
    /\ \A k \in (j + 1)..Len(q) : ~SameField(q, j, k)

\* C20. Silent name collision. Configure registers two propagators of one
\* name without error. When a top-level Inject has returned and no encoder
\* failed, for propagators P1 before P2 of one name whose keys both have a
\* value: the call returned no error and the carrier holds one field of that
\* name, with the one value that is the base64 of P2's payload (P1's is
\* lost). When a top-level Extract of such a list has returned without error
\* from a carrier with that field: both decoders were called, and each stored
\* under its own key the value decoded from that one payload.
C20_SilentCollision ==
    \A p \in Procs :
        /\ Done(p, "Configure") =>
              /\ rerr[p] = NoErr
              /\ Len(propagators) >= Len(args[p])
              /\ SubSeq(propagators, Len(propagators) - Len(args[p]) + 1,
                        Len(propagators)) = args[p]
        /\ (/\ Done(p, "Inject")
            /\ \A j \in 1..Len(rng[p]) :
                  Encode(rng[p][j].encoder, ctx0[p], rng[p][j].contextKey).err = NoErr)
           => /\ rerr[p] = NoErr
              /\ \A i, j \in 1..Len(rng[p]) :
                    LET e1 == Encode(rng[p][i].encoder, ctx0[p], rng[p][i].contextKey)
                        e2 == Encode(rng[p][j].encoder, ctx0[p], rng[p][j].contextKey)
                    IN  (Collide(rng[p], i, j) /\ Len(e1.data) > 0 /\ Len(e2.data) > 0)
                        => /\ HeaderHas(h[p], headerKey(rng[p][j].name))
                           /\ h[p][FieldOf(rng[p][j].name)] = <<EncodeToString(e2.data)>>
        /\ (Done(p, "Extract") /\ rerr[p] = NoErr)
           => \A i, j \in 1..Len(rng[p]) :
                 LET f == HeaderGet(h0[p], headerKey(rng[p][j].name))
                     v == Unmarshal(DecodeString(f).data).v
                 IN  (Collide(rng[p], i, j) /\ f # <<>>)
                     => /\ calls[p][i].codec /\ calls[p][j].codec
                        /\ Value(calls[p][i].ctxOut, rng[p][i].contextKey) = v
                        /\ Value(calls[p][j].ctxOut, rng[p][j].contextKey) = v

\* C20's case: PA then PA2 registered, a context with the number 7 under
\* PA's key and the string "a" under PA2's injected into an empty carrier,
\* which then holds the one field with the string; the Extract from it into
\* an empty context returned the string under both keys.
C20_Witness ==
    /\ Done("p1", "Extract")
    /\ propagators = <<PA, PA2>>
    /\ rng["p1"] = <<PA, PA2>>
    /\ sent["p1"].ok /\ sent["p1"].ctx = CtxJSON /\ sent["p1"].rng = <<PA, PA2>>
    /\ DOMAIN h0["p1"] = {FieldOf(<<"a">>)}
    /\ h0["p1"][FieldOf(<<"a">>)] = <<EncodeToString(Marshal(VStr).data)>>
    /\ ctx0["p1"] = Background
    /\ rerr["p1"] = NoErr
    /\ Value(rctx["p1"], "kA") = VStr
    /\ Value(rctx["p1"], "kD") = VStr

(***************************************************************************)
(* The transport decorators                                                *)
(*                                                                         *)
(* A RoundTripper is the stack of the decorators around the primitive,     *)
(* outermost first. The client goroutine runs RoundTrip through the stack; *)
(* the primitive fails, or answers with the headers of a peer, or with the *)
(* headers the handler of the test server wrote, which is a goroutine of   *)
(* the same process and uses the same register.                            *)
(***************************************************************************)
Client == "p1"

Server == "p2"

\* http.DefaultTransport: the primitive, with no decorator around it.
DefaultTransport == <<>>

InjectTransport(t) == <<"inject">> \o t

ExtractTransport(t) == <<"extract">> \o t

\* A faulty variant of Transport: the inject decorator is left out.
Transport_NoInject(t) == ExtractTransport(t)

Transport(t) == InjectTransport(ExtractTransport(t))

RoundTrippers ==
    {InjectTransport(DefaultTransport), ExtractTransport(DefaultTransport),
     Transport(DefaultTransport)}

\* The propagator of the log of the back-propagation test.
PLog == NewValuePropagator(<<"l">>, "kL", "logEncoder", "logDecoder")

\* The propagators the test registers: str, int and log.
TestPropagators == <<PA, PC, PLog>>

VFoo == Val("string", Bytes(<<"f", "o", "o">>))

VBar == Val("string", Bytes(<<"b", "a", "r">>))

V42 == Val("int", Bytes(<<"4", "2">>))

\* The client's context: str "foo", int 42, log [service:search, index:products].
CtxClient ==
    [k \in Keys |->
        CASE k = "kA" -> VFoo
          [] k = "kC" -> V42
          [] k = "kL" ->
                LogState(<<logWithService(Bytes(<<"s", "e", "a", "r", "c", "h">>)),
                           logWithIndex(Bytes(<<"p", "r", "o", "d", "u", "c", "t", "s">>))>>)
          [] OTHER    -> Nil]

\* The context of the server's handler: str "bar" and log [user_token:123,
\* latency:42, index:new_products]; no int.
CtxServer ==
    [k \in Keys |->
        CASE k = "kA" -> VBar
          [] k = "kL" ->
                LogState(<<logWithUserToken(Bytes(<<"1", "2", "3">>)),
                           logWithLatency(Bytes(<<"4", "2">>)),
                           logWithIndex(Bytes(<<"n", "e", "w", "_", "p", "r", "o", "d",
                                                 "u", "c", "t", "s">>))>>)
          [] OTHER    -> Nil]

\* The contexts of the client's requests; with CtxAll the encoder of int fails.
ClientContexts == {CtxClient, CtxAll, Background}

ServerContexts == {CtxServer, Background}

\* The response headers of a peer that is not the test server.
PeerCarriers == {HPeer}

regvars == <<propagators, mu, pc, op, args, ctx0, ctx, h0, h, rng, idx, perr, calls,
             rerr, rctx, sent, hist, outer>>

\* The RoundTrip has returned to the caller.
Returned == rt.pc = "leave" /\ rt.depth = 0

\* The decorator that runs, or the primitive below the last one.
Layer == IF rt.depth \in 1..Len(rt.t) THEN rt.t[rt.depth] ELSE "primitive"

\* The entries of the trace.
CallOf(f) == [f |-> f, e |-> "call", ok |-> TRUE]

ReturnOf(f, ok) == [f |-> f, e |-> "return", ok |-> ok]

\* The client registers the test's propagators, before its first request.
ClientConfigure == rt = NoRoundTrip /\ CallConfigure(Client, TestPropagators)

\* The client makes a request with the context c and calls RoundTrip of t
\* with it. What earlier calls left behind is forgotten.
RoundTripCall(t, c) ==
    /\ Returned
    /\ \A p \in Procs : pc[p] = "idle"
    /\ rt' = [pc |-> "enter", t |-> t, depth |-> 1, req |-> [ctx |-> c, h |-> HEmpty],
              ctx0 |-> c, resp |-> NoResp, err |-> NoErr, trace |-> <<>>]
    /\ op' = [p \in Procs |-> "none"]
    /\ args' = [p \in Procs |-> <<>>]
    /\ ctx0' = [p \in Procs |-> Background]
    /\ ctx' = [p \in Procs |-> Background]
    /\ h0' = [p \in Procs |-> HEmpty]
    /\ h' = [p \in Procs |-> HEmpty]
    /\ rng' = [p \in Procs |-> <<>>]
    /\ idx' = [p \in Procs |-> 1]
    /\ perr' = [p \in Procs |-> NoErr]
    /\ calls' = [p \in Procs |-> <<>>]
    /\ rerr' = [p \in Procs |-> NoErr]
    /\ rctx' = [p \in Procs |-> Background]
    /\ sent' = [p \in Procs |-> NotSent]
    /\ UNCHANGED <<propagators, mu, pc, hist, outer>>

\* injectTransport.RoundTrip: err := Inject(req.Context(), req.Header)
injectTransport_Inject ==
    /\ rt.pc = "enter"
    /\ Layer = "inject"
    /\ CallCarrier(Client, "Inject", rt.req.ctx, rt.req.h)
    /\ rt' = [rt EXCEPT !.pc = "injecting", !.trace = Append(@, CallOf("Inject"))]
    /\ UNCHANGED <<hist, outer>>

\* A faulty variant of injectTransport_Injected: the wrapped RoundTripper is
\* called whatever Inject returned.
injectTransport_Injected_GoOn ==
    /\ rt.pc = "injecting"
    /\ Done(Client, "Inject")
    /\ rt' = [rt EXCEPT !.pc = "enter", !.depth = @ + 1, !.req.h = h[Client],
                        !.trace = Append(@, ReturnOf("Inject", rerr[Client] = NoErr))]
    /\ UNCHANGED regvars

\* injectTransport.RoundTrip after Inject has returned: return nil, err, or
\* the call of the wrapped RoundTripper.
injectTransport_Injected ==
    /\ rt.pc = "injecting"
    /\ Done(Client, "Inject")
    /\ rt' = IF rerr[Client] # NoErr
             THEN [rt EXCEPT !.pc = "leave", !.depth = @ - 1, !.req.h = h[Client],
                             !.resp = NoResp, !.err = rerr[Client],
                             !.trace = Append(@, ReturnOf("Inject", FALSE))]
             ELSE [rt EXCEPT !.pc = "enter", !.depth = @ + 1, !.req.h = h[Client],
                             !.trace = Append(@, ReturnOf("Inject", TRUE))]
    /\ UNCHANGED regvars

\* injectTransport.RoundTrip returns what the wrapped RoundTripper returned.
injectTransport_Return ==
    /\ rt.pc = "leave"
    /\ Layer = "inject"
    /\ rt' = [rt EXCEPT !.depth = @ - 1]
    /\ UNCHANGED regvars

\* extractTransport.RoundTrip: resp, err := m.RoundTripper.RoundTrip(req)
extractTransport_RoundTrip ==
    /\ rt.pc = "enter"
    /\ Layer = "extract"
    /\ rt' = [rt EXCEPT !.depth = @ + 1]
    /\ UNCHANGED regvars

\* A faulty variant of extractTransport_Extract: the error of the wrapped
\* RoundTripper is wrapped in a package Error.
extractTransport_Extract_Wrap ==
    /\ rt.pc = "leave"
    /\ Layer = "extract"
    /\ IF rt.err # NoErr
       THEN /\ rt' = [rt EXCEPT !.depth = @ - 1, !.resp = NoResp,
                                !.err = newError("round trip", rt.err)]
            /\ UNCHANGED regvars
       ELSE /\ CallCarrier(Client, "Extract", rt.req.ctx, rt.resp.h)
            /\ rt' = [rt EXCEPT !.pc = "extracting",
                                !.trace = Append(@, CallOf("Extract"))]
            /\ UNCHANGED <<hist, outer>>

\* extractTransport.RoundTrip after the wrapped RoundTripper has returned:
\* return nil, err, or ctx, err := Extract(req.Context(), resp.Header).
extractTransport_Extract ==
    /\ rt.pc = "leave"
    /\ Layer = "extract"
    /\ IF rt.err # NoErr
       THEN /\ rt' = [rt EXCEPT !.depth = @ - 1, !.resp = NoResp]
            /\ UNCHANGED regvars
       ELSE /\ CallCarrier(Client, "Extract", rt.req.ctx, rt.resp.h)
            /\ rt' = [rt EXCEPT !.pc = "extracting",
                                !.trace = Append(@, CallOf("Extract"))]
            /\ UNCHANGED <<hist, outer>>

\* A faulty variant of extractTransport_Extracted: the request keeps its
\* context.
extractTransport_Extracted_NoRebind ==
    /\ rt.pc = "extracting"
    /\ Done(Client, "Extract")
    /\ rt' = IF rerr[Client] # NoErr
             THEN [rt EXCEPT !.pc = "leave", !.depth = @ - 1, !.err = rerr[Client],
                             !.trace = Append(@, ReturnOf("Extract", FALSE))]
             ELSE [rt EXCEPT !.pc = "leave", !.depth = @ - 1,
                             !.trace = Append(@, ReturnOf("Extract", TRUE))]
    /\ UNCHANGED regvars

\* A faulty variant of extractTransport_Extracted: the request gets the context
\* Extract returned whether Extract failed or not, and a failure drops the
\* response.
extractTransport_Extracted_Always ==
    /\ rt.pc = "extracting"
    /\ Done(Client, "Extract")
    /\ rt' = IF rerr[Client] # NoErr
             THEN [rt EXCEPT !.pc = "leave", !.depth = @ - 1, !.err = rerr[Client],
                             !.resp = NoResp, !.req.ctx = rctx[Client],
                             !.trace = Append(@, ReturnOf("Extract", FALSE))]
             ELSE [rt EXCEPT !.pc = "leave", !.depth = @ - 1, !.req.ctx = rctx[Client],
                             !.trace = Append(@, ReturnOf("Extract", TRUE))]
    /\ UNCHANGED regvars

\* extractTransport.RoundTrip after Extract has returned: return resp, err,
\* or *req = *req.WithContext(ctx) and return resp, nil.
extractTransport_Extracted ==
    /\ rt.pc = "extracting"
    /\ Done(Client, "Extract")
    /\ rt' = IF rerr[Client] # NoErr
             THEN [rt EXCEPT !.pc = "leave", !.depth = @ - 1, !.err = rerr[Client],
                             !.trace = Append(@, ReturnOf("Extract", FALSE))]
             ELSE [rt EXCEPT !.pc = "leave", !.depth = @ - 1, !.req.ctx = rctx[Client],
                             !.trace = Append(@, ReturnOf("Extract", TRUE))]
    /\ UNCHANGED regvars

\* The error of a primitive that could not do the exchange.
ErrExchange == ErrorsNew("connection refused")

\* The primitive fails: it returns nil and its error.
Primitive_Fail ==
    /\ rt.pc = "enter"
    /\ Layer = "primitive"
    /\ rt' = [rt EXCEPT !.pc = "leave", !.depth = @ - 1, !.resp = NoResp,
                        !.err = ErrExchange,
                        !.trace = @ \o <<CallOf("RoundTrip"), ReturnOf("RoundTrip", FALSE)>>]
    /\ UNCHANGED regvars

\* The primitive returns the response of a peer, with the headers hh.
Primitive_Respond(hh) ==
    /\ rt.pc = "enter"
    /\ Layer = "primitive"
    /\ rt' = [rt EXCEPT !.pc = "leave", !.depth = @ - 1, !.resp = Response(hh),
                        !.err = NoErr,
                        !.trace = @ \o <<CallOf("RoundTrip"), ReturnOf("RoundTrip", TRUE)>>]
    /\ UNCHANGED regvars

\* The primitive sends the request to the test server, whose handler calls
\* Inject(ctx, w.Header()) with its own context sctx.
Handler_Inject(sctx) ==
    /\ rt.pc = "enter"
    /\ Layer = "primitive"
    /\ CallCarrier(Server, "Inject", sctx, HEmpty)
    /\ rt' = [rt EXCEPT !.pc = "serving", !.trace = Append(@, CallOf("RoundTrip"))]
    /\ UNCHANGED <<hist, outer>>

\* The handler has returned (it drops the error of Inject), and the primitive
\* returns the response with the headers the handler wrote.
Handler_Return ==
    /\ rt.pc = "serving"
    /\ Done(Server, "Inject")
    /\ rt' = [rt EXCEPT !.pc = "leave", !.depth = @ - 1, !.resp = Response(h[Server]),
                        !.err = NoErr,
                        !.trace = Append(@, ReturnOf("RoundTrip", TRUE))]
    /\ UNCHANGED regvars

NextTransport ==
    \/ ClientConfigure
    \/ \E t \in RoundTrippers, c \in ClientContexts : RoundTripCall(t, c)
    \/ injectTransport_Inject
    \/ injectTransport_Injected
    \/ injectTransport_Return
    \/ extractTransport_RoundTrip
    \/ extractTransport_Extract
    \/ extractTransport_Extracted
    \/ Primitive_Fail
    \/ \E hh \in PeerCarriers : Primitive_Respond(hh)
    \/ \E sctx \in ServerContexts : Handler_Inject(sctx)
    \/ Handler_Return
    \/ \E p \in Procs : Lock(p)
    \/ \E p \in Procs : Add(p)
    \/ \E p \in Procs : InjectStep(p)
    \/ \E p \in Procs : ExtractStep(p)
    \/ \E p \in Procs : ConfigureReturn(p)
    \/ \E p \in Procs : InjectReturn(p)
    \/ \E p \in Procs : ExtractReturn(p)

SpecTransport == Init /\ [][NextTransport]_vars

\* The last entry of the trace is the return of f, with success or not.
LastReturn(f, ok) ==
    Len(rt.trace) > 0 /\ rt.trace[Len(rt.trace)] = ReturnOf(f, ok)

\* C11. Inject-on-send aborts before the exchange. Once the Inject of the
\* inject decorator (alone or in the composed decorator) has failed for the
\* request's context, nothing more is called: not the wrapped primitive, not
\* Extract; and the RoundTrip returns the nil response and the error Inject
\* returned.
C11_InjectAborts ==
    \A i \in 1..Len(rt.trace) :
        rt.trace[i] = ReturnOf("Inject", FALSE) =>
            /\ i = Len(rt.trace)
            /\ rt.pc = "leave"
            /\ rt.resp = NoResp
            /\ rt.err # NoErr
            /\ rt.err = rerr[Client]
            /\ op[Client] = "Inject"
            /\ ctx0[Client] = rt.ctx0
            /\ op[Server] = "none"

\* C11's case: a RoundTrip of the composed decorator has returned for a
\* request whose context holds a channel under the key of int.
C11_Witness ==
    /\ Returned
    /\ rt.t = <<"inject", "extract">>
    /\ rt.ctx0 = CtxAll
    /\ rng[Client] = TestPropagators
    /\ rt.trace = <<CallOf("Inject"), ReturnOf("Inject", FALSE)>>
    /\ rt.resp.nil
    /\ ErrorString(rt.err) = "encode context value: json: unsupported type: chan int"

\* C12. Extract-on-receive rebinds the request context. When the RoundTrip of
\* a stack with the extract decorator has returned after an Extract that
\* succeeded: that Extract got the context the request was made with and the
\* headers of the response the primitive returned, the request's context is
\* the context that Extract returned, and the RoundTrip returned that
\* response and no error.
C12_ExtractRebinds ==
    (Returned /\ LastReturn("Extract", TRUE)) =>
        /\ op[Client] = "Extract"
        /\ ctx0[Client] = rt.ctx0
        /\ h0[Client] = rt.resp.h
        /\ rt.req.ctx = rctx[Client]
        /\ ~rt.resp.nil
        /\ rt.err = NoErr

\* C12's case: the extract decorator alone, the client's context, the answer
\* of the test server: the request's context now holds "bar" where it held
\* "foo".
C12_Witness ==
    /\ Returned
    /\ rt.t = <<"extract">>
    /\ rt.ctx0 = CtxClient
    /\ ctx0[Server] = CtxServer
    /\ rng[Client] = TestPropagators /\ rng[Server] = TestPropagators
    /\ LastReturn("Extract", TRUE)
    /\ Value(rt.ctx0, "kA") = VFoo
    /\ Value(rt.req.ctx, "kA") = VBar

\* C13. Extract-on-receive failure keeps the response. When the RoundTrip has
\* returned after the primitive succeeded and Extract failed: it returned the
\* response the primitive returned, which is not nil, and the error Extract
\* returned; the request's context is the one the request was made with, not
\* the nil context and no partly extended one.
C13_ExtractFailureKeepsResponse ==
    (Returned /\ LastReturn("Extract", FALSE)) =>
        /\ ~rt.resp.nil
        /\ rt.resp.h = h0[Client]
        /\ rt.err # NoErr
        /\ rt.err = rerr[Client]
        /\ op[Client] = "Extract"
        /\ rt.req.ctx = rt.ctx0
        /\ rt.req.ctx # NilCtx

\* C13's case: the composed decorator got from a peer a response whose field
\* of int is no base64; the field of the propagator before was skipped.
C13_Witness ==
    /\ Returned
    /\ rt.t = <<"inject", "extract">>
    /\ rt.ctx0 = CtxClient
    /\ rng[Client] = TestPropagators
    /\ rt.resp = Response(HPeer)
    /\ LastReturn("Extract", FALSE)
    /\ Len(calls[Client]) = 2
    /\ ErrorString(rt.err) = "base64 decode context value: illegal base64 data"
    /\ rt.req.ctx = CtxClient

\* C14. Primitive failure passes through. Once the primitive has returned an
\* error, nothing more is called (Extract is not run), and the RoundTrip of
\* the extract decorator and of the composed decorator returns the nil
\* response and that very error, which is no package Error; the request
\* keeps its context.
C14_PrimitiveFailurePasses ==
    \A i \in 1..Len(rt.trace) :
        rt.trace[i] = ReturnOf("RoundTrip", FALSE) =>
            /\ i = Len(rt.trace)
            /\ op[Client] # "Extract"
            /\ rt.req.ctx = rt.ctx0
            /\ rt.err = ErrExchange
            /\ ~AsPkgError(rt.err)
            /\ Returned => rt.resp = NoResp

\* C14's case: the composed decorator injected, the primitive failed, and the
\* RoundTrip has returned.
C14_Witness ==
    /\ Returned
    /\ rt.t = <<"inject", "extract">>
    /\ rt.ctx0 = CtxClient
    /\ rng[Client] = TestPropagators
    /\ rt.trace = <<CallOf("Inject"), ReturnOf("Inject", TRUE),
                    CallOf("RoundTrip"), ReturnOf("RoundTrip", FALSE)>>
    /\ rt.resp.nil
    /\ ErrorString(rt.err) = "connection refused"

\* The calls of a RoundTrip of the composed decorator that runs to its end.
FullTrace ==
    <<CallOf("Inject"), ReturnOf("Inject", TRUE),
      CallOf("RoundTrip"), ReturnOf("RoundTrip", TRUE),
      CallOf("Extract"), ReturnOf("Extract", TRUE)>>

\* C15. Composed decorator ordering. In a RoundTrip of Transport(t) the calls
\* happen in the order Inject, wrapped primitive, Extract, each one called
\* after the one before it has returned with success: the primitive is not
\* called before Inject returned without error, Extract is not called before
\* the primitive returned a response. Inject gets the context the request
\* was made with and the request's headers, Extract the headers of the
\* response; a RoundTrip that returned no error made all three calls.
C15_ComposedOrder ==
    rt.t = Transport(DefaultTransport) =>
        /\ Len(rt.trace) <= Len(FullTrace)
        /\ \A i \in 1..Len(rt.trace) :
              /\ rt.trace[i].f = FullTrace[i].f
              /\ rt.trace[i].e = FullTrace[i].e
              /\ i < Len(rt.trace) => rt.trace[i].ok
        /\ (rt.pc # "enter" \/ rt.depth > 1) =>
              Len(rt.trace) > 0 /\ rt.trace[1] = CallOf("Inject")
        /\ op[Client] = "Inject" =>
              ctx0[Client] = rt.ctx0 /\ h0[Client] = HEmpty
        /\ op[Client] = "Extract" =>
              ctx0[Client] = rt.ctx0 /\ h0[Client] = rt.resp.h
        /\ (Returned /\ rt.err = NoErr) => Len(rt.trace) = Len(FullTrace)

\* C15's case: a RoundTrip of the composed decorator, of two layers, has
\* returned after the three calls, with the headers Inject wrote in the
\* request.
C15_Witness ==
    /\ Returned
    /\ rt.t = <<"inject", "extract">>
    /\ rt.trace = FullTrace
    /\ rt.ctx0 = CtxClient
    /\ rng[Client] = TestPropagators
    /\ DOMAIN rt.req.h = {FieldOf(<<"a">>), FieldOf(<<"c">>), FieldOf(<<"l">>)}
    /\ rt.err = NoErr

\* The log entry that the attributes of a log state make.
EntryOf(v) == ApplyAttrs(ZeroEntry, v.attrs)

\* The exchange of the back-propagation test has returned: the composed
\* decorator, str, int and log registered, the client's context, and the
\* answer of the test server's handler with its context.
BackPropagated ==
    /\ Returned
    /\ rt.t = Transport(DefaultTransport)
    /\ rt.ctx0 = CtxClient
    /\ op[Client] = "Extract" /\ rng[Client] = TestPropagators
    /\ op[Server] = "Inject" /\ rng[Server] = TestPropagators
    /\ ctx0[Server] = CtxServer

\* C16. End-to-end back-propagation. After the exchange of the test the
\* RoundTrip returned no error, the response holds the fields of str and log
\* and none of int, and the request's context holds: under str "bar"; under
\* int the integer 42, the client's own value; under log a state whose entry
\* is service "search", index "new_products", user_token "123" and
\* latency_ms 42.
C16_BackPropagation ==
    BackPropagated =>
        /\ rt.err = NoErr
        /\ DOMAIN rt.resp.h = {FieldOf(<<"a">>), FieldOf(<<"l">>)}
        /\ Value(rt.req.ctx, "kA") = VBar
        /\ Value(rt.req.ctx, "kC") = V42
        /\ Value(rt.req.ctx, "kL").t = "logState"
        /\ EntryOf(Value(rt.req.ctx, "kL")) =
              [service    |-> Val("string", Bytes(<<"s", "e", "a", "r", "c", "h">>)),
               index      |-> Val("string", Bytes(<<"n", "e", "w", "_", "p", "r", "o",
                                                    "d", "u", "c", "t", "s">>)),
               user_token |-> Val("string", Bytes(<<"1", "2", "3">>)),
               latency_ms |-> Val("int", Bytes(<<"4", "2">>))]

\* C16's case: the exchange of the test has returned; the log state of the
\* request's context has the client's two attributes and the entry received.
C16_Witness ==
    /\ BackPropagated
    /\ rt.trace = FullTrace
    /\ Len(Value(rt.req.ctx, "kL").attrs) = 3
    /\ Value(rt.req.ctx, "kL").attrs[3].f = "json"
    /\ Value(rt.ctx0, "kA") = VFoo
    /\ EntryOf(Value(rt.ctx0, "kL")).index
         = Val("string", Bytes(<<"p", "r", "o", "d", "u", "c", "t", "s">>))

(***************************************************************************)
(* Concurrent callers                                                      *)
(***************************************************************************)
\* The arguments of the Configure calls of concurrent callers.
ConcArgLists == {<<PA>>, <<PC, PA>>}

\* A carrier with the field of PA.
HConc == [x \in {FieldOf(<<"a">>)} |-> <<EncodeToString(Marshal(VInt).data)>>]

ConcCarriers == {HEmpty, HConc}

\* The goroutines of Procs call Configure, Inject and Extract, in any
\* interleaving of their steps.
NextConc ==
    \/ \E p \in Procs, a \in ConcArgLists : CallConfigure(p, a)
    \/ \E p \in Procs : CallInject(p, CtxJSON, HEmpty)
    \/ \E p \in Procs, hh \in ConcCarriers : CallExtract(p, Background, hh)
    \/ \E p \in Procs : Lock(p)
    \/ \E p \in Procs : Add(p)
    \/ \E p \in Procs : InjectStep(p)
    \/ \E p \in Procs : ExtractStep(p)
    \/ \E p \in Procs : ConfigureReturn(p)
    \/ \E p \in Procs : InjectReturn(p)
    \/ \E p \in Procs : ExtractReturn(p)

SpecConc == Init /\ [][NextConc]_vars

\* Process p is between r.mu.Lock() and the deferred r.mu.Unlock().
InCritical(p) == pc[p] \in {"add", "loop", "unlock"}

\* Process p is in Inject or Extract, between the evaluation of the range
\* expression and the unlock.
Iterating(p) == op[p] \in {"Inject", "Extract"} /\ pc[p] \in {"loop", "unlock"}

\* C17. Register operations are serialized and Configure is atomic to
\* readers. In every interleaving of concurrent Configure, Inject and Extract
\* calls: at most one call is in the critical section, and it holds the
\* mutex; the list an Inject or Extract iterates is the whole content of the
\* register, and while it iterates neither that list nor the register
\* changes, so the list is the content as it was entirely before or entirely
\* after each Configure call; the register changes only in a step of a
\* Configure that holds the mutex, which appends all its arguments in one.
C17_Serialized ==
    /\ [](\A p, q \in Procs : (InCritical(p) /\ InCritical(q)) => p = q)
    /\ [](\A p \in Procs : InCritical(p) => mu = p)
    /\ [](\A p \in Procs : Iterating(p) => rng[p] = propagators)
    /\ [][\A p \in Procs :
            Iterating(p) => (propagators' = propagators /\ rng'[p] = rng[p])]_vars
    /\ [][propagators' # propagators =>
            \E q \in Procs :
                /\ op[q] = "Configure" /\ pc[q] = "add" /\ mu = q
                /\ propagators' = propagators \o args[q]
                /\ \A p \in Procs \ {q} : ~InCritical(p)]_vars

\* C17's case: one goroutine iterates the register in Inject, having run one
\* propagator of two, while the other is in a Configure that waits for the
\* mutex.
C17_Witness ==
    /\ op["p1"] = "Inject" /\ pc["p1"] = "loop" /\ idx["p1"] = 2
    /\ rng["p1"] = <<PC, PA>>
    /\ op["p2"] = "Configure" /\ pc["p2"] = "lock" /\ args["p2"] = <<PA>>
    /\ mu = "p1"
    /\ propagators = <<PC, PA>>


(***************************************************************************)
(* Calls in a row on one carrier                                           *)
(***************************************************************************)
\* The calls that follow the first one on a carrier.
MaxCalls == 2

RepeatArgLists == {<<PA, PC>>, <<PA2>>}

\* A carrier received from a peer that added two values to the field of "a":
\* the JSON texts true and 7.
HTwice ==
    [x \in {FieldOf(<<"a">>)} |->
        <<EncodeToString(TextTrue), EncodeToString(<<55>>)>>]

RepeatCarriers == {HEmpty, HPeer, HTwice}

\* What the call of p that has returned was given and what it left.
ReturnedCall(p) ==
    [op |-> op[p], ctx |-> ctx0[p], rng |-> rng[p], h0 |-> h0[p], h |-> h[p],
     err |-> rerr[p], rctx |-> rctx[p]]

\* Configure, called before the first request.
RepeatConfigure(p, a) ==
    /\ op[p] \notin {"Inject", "Extract"}
    /\ CallConfigure(p, a)

\* Inject or Extract with a carrier no call was given before.
FirstCall(p, o, c, hh) ==
    /\ CallCarrier(p, o, c, hh)
    /\ hist' = <<>>
    /\ UNCHANGED rt

\* Inject or Extract with the carrier the call that has just returned was
\* given.
RepeatCall(p, o, c) ==
    /\ op[p] \in {"Inject", "Extract"}
    /\ Len(hist) < MaxCalls
    /\ CallCarrier(p, o, c, h[p])
    /\ hist' = Append(hist, ReturnedCall(p))
    /\ UNCHANGED rt

NextRepeat ==
    \/ \E a \in RepeatArgLists : RepeatConfigure(Caller, a)
    \/ \E c \in Contexts, hh \in RepeatCarriers : FirstCall(Caller, "Inject", c, hh)
    \/ \E hh \in RepeatCarriers : FirstCall(Caller, "Extract", Background, hh)
    \/ \E c \in Contexts : RepeatCall(Caller, "Inject", c)
    \/ RepeatCall(Caller, "Extract", Background)
    \/ Lock(Caller)
    \/ Add(Caller)
    \/ InjectStep(Caller)
    \/ ExtractStep(Caller)
    \/ ConfigureReturn(Caller)
    \/ InjectReturn(Caller)
    \/ ExtractReturn(Caller)

SpecRepeat == Init /\ [][NextRepeat]_vars

\* The payload the encoder of propagator q makes of context c.
Payload(q, c) == Encode(q.encoder, c, q.contextKey)

\* The iteration j of the call of p wrote its propagator's field, and no later
\* iteration of the call wrote that field.
LastWrite(p, j) ==
    LET Wrote(i) ==
            /\ calls[p][i].q.kind = "value"
            /\ calls[p][i].err = NoErr
            /\ Len(Payload(calls[p][i].q, ctx0[p]).data) > 0
    IN  /\ Wrote(j)
        /\ \A i \in (j + 1)..Len(calls[p]) :
              FieldOf(calls[p][i].q.name) = FieldOf(calls[p][j].q.name) => ~Wrote(i)

\* C21. Inject is idempotent on the carrier. When a top-level Inject has
\* returned that followed, on the same carrier, an Inject with the same
\* context and the same list of propagators: the carrier is as the earlier
\* call left it and the error is the earlier call's. An iteration of Inject
\* whose encoder makes a payload leaves in the propagator's field exactly one
\* value, the base64 of that payload, whatever the field held; and when an
\* Inject has returned, each field it wrote holds exactly the base64 of the
\* last payload written to it.
C21_InjectIdempotent ==
    /\ [](\A p \in Procs :
            (/\ Done(p, "Inject")
             /\ Len(hist) > 0
             /\ hist[Len(hist)].op = "Inject"
             /\ hist[Len(hist)].ctx = ctx0[p]
             /\ hist[Len(hist)].rng = rng[p])
            => /\ h[p] = hist[Len(hist)].h
               /\ rerr[p] = hist[Len(hist)].err)
    /\ [][\A p \in Procs :
            (pc[p] = "loop" /\ op[p] = "Inject" /\ idx'[p] = idx[p] + 1) =>
                LET q == rng[p][idx[p]]
                    e == Payload(q, ctx[p])
                IN  (q.kind = "value" /\ e.err = NoErr /\ Len(e.data) > 0)
                    => h'[p][FieldOf(q.name)] = <<EncodeToString(e.data)>>]_vars
    /\ [](\A p \in Procs :
            Done(p, "Inject") =>
                \A j \in 1..Len(calls[p]) :
                    LastWrite(p, j) =>
                        h[p][FieldOf(calls[p][j].q.name)] =
                            <<EncodeToString(Payload(calls[p][j].q, ctx0[p]).data)>>)

\* C21's case: a carrier whose field of "a" a peer gave two values was
\* injected twice with the number 7 under the key of "a": after the first call
\* the field holds the one value, and after the second the carrier and the
\* result are those of the first.
C21_Witness ==
    /\ Done("p1", "Inject")
    /\ rng["p1"] = <<PA, PC>>
    /\ ctx0["p1"] = CtxJSON
    /\ Len(hist) = 1
    /\ hist[1].op = "Inject"
    /\ hist[1].ctx = CtxJSON
    /\ hist[1].rng = rng["p1"]
    /\ hist[1].h0 = HTwice
    /\ Len(HTwice[FieldOf(<<"a">>)]) = 2
    /\ hist[1].h[FieldOf(<<"a">>)] = <<EncodeToString(Marshal(VFloat).data)>>
    /\ h["p1"] = hist[1].h
    /\ rerr["p1"] = NoErr
    /\ hist[1].err = NoErr

\* Propagator j of the list q is the only one of its name and of its key, but
\* for copies of itself.
Alone(q, j) ==
    \A i \in 1..Len(q) :
        (SameField(q, i, j) \/ q[i].contextKey = q[j].contextKey) => q[i] = q[j]

LiveArgLists == {<<PC, PA>>, <<PDecode, PA>>}

\* A carrier whose field of "c" is no base64 and whose fields of "d" and "a"
\* hold the number 7.
HBad ==
    [x \in {FieldOf(<<"c">>), FieldOf(<<"d">>), FieldOf(<<"a">>)} |->
        IF x = FieldOf(<<"c">>) THEN << <<"!", "!", "!", "!">> >>
        ELSE <<EncodeToString(<<55>>)>>]

LiveCarriers == {HEmpty, HBad}

\* The goroutines of Procs call Configure, Inject with a context whose value
\* under the key of "c" no encoder takes, and Extract from a carrier with a
\* field that is no base64 and a field whose decoder fails.
NextLive ==
    \/ \E p \in Procs, a \in LiveArgLists : CallConfigure(p, a)
    \/ \E p \in Procs : CallInject(p, CtxAll, HEmpty)
    \/ \E p \in Procs, hh \in LiveCarriers : CallExtract(p, Background, hh)
    \/ \E p \in Procs : Lock(p)
    \/ \E p \in Procs : Add(p)
    \/ \E p \in Procs : InjectStep(p)
    \/ \E p \in Procs : ExtractStep(p)
    \/ \E p \in Procs : ConfigureReturn(p)
    \/ \E p \in Procs : InjectReturn(p)
    \/ \E p \in Procs : ExtractReturn(p)

\* A step of goroutine p between Lock and the return of its call; the pc and
\* the operation of p enable at most one of them.
Running(p) ==
    \/ Add(p)
    \/ InjectStep(p)
    \/ ExtractStep(p)
    \/ ConfigureReturn(p)
    \/ InjectReturn(p)
    \/ ExtractReturn(p)

\* The scheduler runs every goroutine that can run, and sync.Mutex hands the
\* mutex to a goroutine that has waited for it (its starvation mode), so a
\* Lock that can be taken again and again is taken. Nothing makes a goroutine
\* call. The second condition is WF_vars(Running(p)) written out: a step of
\* Running(p) is possible exactly when p is between Lock and its return.
SpecLive ==
    /\ Init
    /\ [][NextLive]_vars
    /\ \A p \in Procs :
          /\ SF_vars(Lock(p))
          /\ ([]<>(~InCritical(p)) \/ []<><<Running(p)>>_vars)

\* C23. The registry lock is released on every return path. With codecs
\* that return and make no call of the registry, under fair scheduling:
\* every Configure, Inject and Extract call that was made returns; the mutex
\* is held by exactly the goroutine that is between Lock and the deferred
\* Unlock, so no goroutine whose call has returned holds it; and the step
\* in which a call returns, having failed mid-list or not, leaves the mutex
\* free. Hence a call that waits for the mutex while another fails, or is
\* made after, returns too.
C23_LockReleased ==
    /\ \A p \in Procs : (pc[p] # "idle") ~> (pc[p] = "idle")
    /\ [](\A p \in Procs : (mu = p) <=> InCritical(p))
    /\ [](\A p \in Procs : pc[p] = "idle" => mu # p)
    /\ [][\A p \in Procs : (pc[p] # "idle" /\ pc'[p] = "idle") => mu' = "free"]_vars

\* C23's case: an Inject has failed at the first propagator of two, with the
\* encoder's error, and returned; the mutex is free and the other goroutine,
\* which waits for it in Extract, can take it.
C23_Witness ==
    /\ Done("p1", "Inject")
    /\ rerr["p1"] # NoErr
    /\ rng["p1"] = <<PC, PA>>
    /\ Len(calls["p1"]) = 1
    /\ mu = "free"
    /\ pc["p2"] = "lock"
    /\ op["p2"] = "Extract"
    /\ h0["p2"] = HBad


(***************************************************************************)
(* A codec that calls the registry                                         *)
(***************************************************************************)
\* A propagator whose Encode and Decode call Configure, Inject or Extract.
PRe == NewValuePropagator(<<"r">>, "kE", "reenterEncoder", "reenterDecoder")

ReArgLists == {<<PA, PRe>>, <<PRe>>}

\* A carrier with the fields of PA and PRe.
HRe ==
    [x \in {FieldOf(<<"a">>), FieldOf(<<"r">>)} |-> <<EncodeToString(<<55>>)>>]

ReCarriers == {HEmpty, HRe}

\* The next iteration of the loop of p calls a codec that calls the registry:
\* Inject calls the encoder of every propagator, Extract the decoder of one
\* whose field is in the carrier and is base64.
Reenters(p) ==
    /\ pc[p] = "loop"
    /\ LET q == rng[p][idx[p]]
           vStr == HeaderGet(h[p], headerKey(q.name))
       IN  /\ q.kind = "value"
           /\ \/ op[p] = "Inject" /\ q.encoder = "reenterEncoder"
              \/ /\ op[p] = "Extract"
                 /\ q.decoder = "reenterDecoder"
                 /\ vStr # <<>>
                 /\ DecodeString(vStr).ok

\* The codec that the loop of p has called calls o of the registry, on the
\* goroutine of p: the call of p waits for the codec to return, and the
\* codec's call begins, with r.mu.Lock().
CodecReenters(p, o) ==
    /\ Reenters(p)
    /\ outer' = [outer EXCEPT ![p] = Append(@, [op |-> op[p], idx |-> idx[p]])]
    /\ op' = [op EXCEPT ![p] = o]
    /\ pc' = [pc EXCEPT ![p] = "lock"]
    /\ UNCHANGED <<propagators, mu, args, ctx0, ctx, h0, h, rng, idx, perr, calls,
                   rerr, rctx, sent, rt, hist>>

\* The goroutines of Procs call Configure, Inject and Extract, and register
\* propagators whose codecs call the registry. An iteration whose codec does
\* so ends when the codec returns.
NextReentrant ==
    \/ \E p \in Procs, a \in ReArgLists : CallConfigure(p, a)
    \/ \E p \in Procs : CallInject(p, CtxJSON, HEmpty)
    \/ \E p \in Procs, hh \in ReCarriers : CallExtract(p, Background, hh)
    \/ \E p \in Procs : Lock(p)
    \/ \E p \in Procs : Add(p)
    \/ \E p \in Procs, o \in {"Configure", "Inject", "Extract"} : CodecReenters(p, o)
    \/ \E p \in Procs : ~Reenters(p) /\ InjectStep(p)
    \/ \E p \in Procs : ~Reenters(p) /\ ExtractStep(p)
    \/ \E p \in Procs : ConfigureReturn(p)
    \/ \E p \in Procs : InjectReturn(p)
    \/ \E p \in Procs : ExtractReturn(p)

SpecReentrant == Init /\ [][NextReentrant]_vars

\* A codec called by the loop of p has called the registry, and its call
\* waits for the mutex that the goroutine p itself holds.
Blocked(p) == outer[p] # <<>> /\ pc[p] = "lock" /\ mu = p

\* C24. Re-entrancy deadlocks. The mutex is held while a codec runs, so when
\* a codec called from the loop of Inject or Extract calls Configure, Inject
\* or Extract, its call waits in Lock for the mutex its own goroutine holds:
\* it stays there in every step that follows, the mutex stays held, the call
\* that called the codec stays suspended in its iteration, and no call of
\* any goroutine that has begun or begins after returns.
C24_ReentrancyDeadlocks ==
    /\ [](\A p \in Procs : outer[p] # <<>> => Blocked(p))
    /\ [][\A p \in Procs :
            Reenters(p) /\ pc'[p] # pc[p] => (mu = p /\ Blocked(p)')]_vars
    /\ [][\A p \in Procs :
            Blocked(p) =>
                /\ Blocked(p)'
                /\ outer'[p] = outer[p]
                /\ idx'[p] = idx[p]
                /\ \A q \in Procs : pc[q] # "idle" => pc'[q] # "idle"
                /\ \A q \in Procs : ~InCritical(q)']_vars

\* C24's case: the encoder of the second propagator, called by the Inject of
\* one goroutine, has called Extract, which waits for the mutex the goroutine
\* holds; the Configure of the other goroutine, begun after, waits too.
C24_Witness ==
    /\ Blocked("p1")
    /\ outer["p1"] = <<[op |-> "Inject", idx |-> 2]>>
    /\ rng["p1"] = <<PA, PRe>>
    /\ op["p1"] = "Extract"
    /\ Len(calls["p1"]) = 1
    /\ pc["p2"] = "lock"
    /\ op["p2"] = "Configure"

====
